---------------------------- MODULE Spec2Model ----------------------------
(***************************************************************************)
(* PStream (multipath QUIC): the per-path sent-packet handler              *)
(* (ackhandler/sent_packet_handler.go) and the packet packer               *)
(* (packet_packer.go), as state machines.                                  *)
(*                                                                         *)
(* Times are in milliseconds.  The zero time.Time is 0; the clock starts   *)
(* at StartTime = 1, so a set time is never 0.                             *)
(***************************************************************************)
EXTENDS Integers, Sequences, FiniteSets, TLC

(***************************************************************************)
(* Bounds of the model.                                                    *)
(***************************************************************************)
\* largest packet number handed to SentPacket
MaxPN == 3
\* the clock is not advanced beyond this time
MaxTime == 520
\* protocol.MaxTrackedSkippedPackets, scaled down so that gaps overflow it
MaxTrackedSkippedPackets == 1
\* protocol.MaxTrackedSentPackets, scaled down so that the ceiling is met
MaxTrackedSentPackets == 3
\* the duplicated packets waiting in the retransmission queue of the path
MaxDuplicates == 1
\* the payload budget of a packet, in minimal frames
MaxFrameSize == 4
\* the control-frame queue and the framer's queue are not filled beyond these
MaxControlFrames == 1
MaxStreamFrames == 1
\* the packet-number generators are not popped beyond this number
MaxPacketNumber == 1
\* the control frames and the stream frames queued when composeNextPacket is
\* applied to given queues
MaxQueuedControlFrames == 2
MaxQueuedStreamFrames == 2

(***************************************************************************)
(* Constants of the program (ms).                                          *)
(***************************************************************************)
defaultRTOTimeout == 500
minRTOTimeout == 200
maxRTOTimeout == 60000
maxTailLossProbes == 2
minRetransmissionTime == 200
minTailLossProbeTimeout == 10
\* the two bytes of a stream frame's data length, by which composeNextPacket
\* raises maxFrameSize
DataLenBytes == 2
\* protocol.NonForwardSecurePacketSizeReduction, in units of one minimal
\* frame: the room left in a handshake packet for the STOP_WAITING frame of
\* its retransmission
NonForwardSecurePacketSizeReduction == 1

\* the instant the model starts at; 0 is the zero time.Time
StartTime == 1
\* time that may pass between two calls
TimeStep == 300
\* Length of a sent packet
Lengths == {1, 2}


Max(a, b) == IF a >= b THEN a ELSE b
Min(a, b) == IF a <= b THEN a ELSE b

\* the value of a set of one element: TheOne({f(x) : x \in {e}}) is f(e),
\* with e computed once however often f uses x
TheOne(S) == CHOOSE x \in S : TRUE
SetMax(S) == CHOOSE x \in S : \A y \in S : y <= x
SetMin(S) == CHOOSE x \in S : \A y \in S : x <= y

RECURSIVE SumLength(_)
SumLength(s) == IF s = <<>> THEN 0 ELSE Head(s).Length + SumLength(Tail(s))

PNs(s) == {s[i].PacketNumber : i \in 1..Len(s)}

\* PacketList.Remove: the list without the element (packet numbers are unique in it)
Remove(s, pn) == SelectSeq(s, LAMBDA p : p.PacketNumber # pn)

VARIABLES
    h,          \* the sentPacketHandler of one path
    rttStats,   \* congestion.RTTStats of the path
    now,        \* time.Now()
    last,       \* the last call of the handler and what it returned
    packer,     \* the packetPacker: controlFrames, stopWaiting, ackFrame, perspective
    streamFramer,           \* the crypto stream frame and the stream frames it holds
    encLevel,               \* the encryption level cryptoSetup.GetSealer() returns
    packetNumberGenerator,  \* per path, the packet number Peek() returns
    packed,     \* the last pack call, whether it returned a packet, and its error
    composed,   \* the last call of composeNextPacket* and the frames it returned
    sess,       \* the session: perspective, paths, openPaths, the manager's nxtPathID
    sch,        \* the scheduler: quotas
    called,     \* the last call of the path manager or the scheduler and its result
    stopWaitingManager,     \* a stopWaitingManager driven on its own
    swf,        \* the last call of GetStopWaitingFrame and the frame it returned
    pathsLock,  \* sess.pathsLock, a sync.RWMutex: the tasks that hold it
    tasks,      \* per task of the session, the function it is in and where
    pths,       \* per PathID, the path of sess.paths: open, closeChan, its task
    closeChanCap            \* the capacity of the closeChan of the paths

hvars == <<h, rttStats, now, last>>
pvars == <<packer, streamFramer, encLevel, packetNumberGenerator, packed, composed>>
svars == <<sess, sch, called>>
wvars == <<stopWaitingManager, swf>>
cvars == <<pathsLock, tasks, pths, closeChanCap>>
vars == <<hvars, pvars, svars, wvars, cvars>>


(***************************************************************************)
(* wire.AckFrame / wire.ClosePathFrame: LargestAcked, LowestAcked and the  *)
(* AckRanges, closed intervals in descending order, present only when      *)
(* packets are missing.  The frames are those the parser accepts: the      *)
(* ranges of a non-empty set of packet numbers.                            *)
(***************************************************************************)
RECURSIVE RangesOf(_)
RangesOf(S) ==
    IF S = {} THEN <<>>
    ELSE LET hi == SetMax(S)
             lo == SetMin({l \in S : \A k \in l..hi : k \in S})
         IN  <<[First |-> lo, Last |-> hi]>> \o RangesOf({x \in S : x < lo})

AckFrameOf(S, delay) ==
    LET r == RangesOf(S)
    IN  [LargestAcked |-> SetMax(S), LowestAcked |-> SetMin(S),
         AckRanges |-> IF Len(r) > 1 THEN r ELSE <<>>, DelayTime |-> delay]

AckFrames == {AckFrameOf(S, 0) : S \in (SUBSET (1..MaxPN)) \ {{}}}

HasMissingRanges(f) == Len(f.AckRanges) > 1

AcksPacket(f, p) ==
    /\ p >= f.LowestAcked
    /\ p <= f.LargestAcked
    /\ (HasMissingRanges(f) =>
          \E i \in 1..Len(f.AckRanges) :
              p >= f.AckRanges[i].First /\ p <= f.AckRanges[i].Last)

(***************************************************************************)
(* Frames.  A frame is a record; only stream frames use the fields         *)
(* StreamID, PathID and DataLenPresent.  ACK and STOP_WAITING frames are   *)
(* not retransmittable.                                                    *)
(***************************************************************************)
Frame(type) ==
    [Type |-> type, StreamID |-> 0, PathID |-> 0, DataLenPresent |-> FALSE,
     ReasonPhrase |-> 0]
StreamFrame(sid, pid) ==
    [Type |-> "stream", StreamID |-> sid, PathID |-> pid, DataLenPresent |-> TRUE,
     ReasonPhrase |-> 0]
\* a CONNECTION_CLOSE frame with a reason phrase of the given length
ConnectionCloseFrame(reasonPhrase) ==
    [Frame("connection_close") EXCEPT !.ReasonPhrase = reasonPhrase]

stripNonRetransmittableFrames(fs) ==
    SelectSeq(fs, LAMBDA f : f.Type \notin {"ack", "stop_waiting"})

\* the frame lists of the packets handed to SentPacket: a packet of ACK and
\* STOP_WAITING only, and a packet with data of the crypto stream
SentFrames ==
    {<<Frame("stop_waiting"), Frame("ack")>>, <<Frame("ack"), StreamFrame(1, 0)>>}

(***************************************************************************)
(* congestion.RTTStats and the retransmission delay of the sender.         *)
(***************************************************************************)
Abs(x) == IF x < 0 THEN -x ELSE x

UpdateRTT(r, sendDelta, ackDelay) ==
    IF sendDelta <= 0 THEN r
    ELSE LET sample == IF sendDelta >= ackDelay THEN sendDelta - ackDelay ELSE sendDelta
         IN  IF r.smoothedRTT = 0
             THEN [latestRTT |-> sample, smoothedRTT |-> sample, meanDeviation |-> sample \div 2]
             ELSE [latestRTT |-> sample,
                   smoothedRTT |-> (7 * r.smoothedRTT + sample) \div 8,
                   meanDeviation |-> (3 * r.meanDeviation + Abs(r.smoothedRTT - sample)) \div 4]

RetransmissionDelay(r) ==
    IF r.smoothedRTT = 0 THEN 0 ELSE r.smoothedRTT + 4 * r.meanDeviation

(***************************************************************************)
(* sentPacketHandler                                                       *)
(***************************************************************************)
NewSentPacketHandler ==
    [lastSentPacketNumber |-> 0,
     skippedPackets |-> <<>>,
     LargestAcked |-> 0,
     largestReceivedPacketWithAck |-> 0,
     packetHistory |-> <<>>,
     nextLeastUnacked |-> 0,
     retransmissionQueue |-> <<>>,
     bytesInFlight |-> 0,
     rtoCount |-> 0,
     tlpCount |-> 0,
     lossTime |-> 0,
     lastSentTime |-> 0,
     alarm |-> 0]

largestInOrderAcked(hh) ==
    IF hh.packetHistory # <<>> THEN Head(hh.packetHistory).PacketNumber - 1
    ELSE hh.LargestAcked

\* the loop of SentPacket without the cap on the list
RECURSIVE appendSkippedNoCap(_, _, _)
appendSkippedNoCap(skipped, p, pn) ==
    IF p >= pn THEN skipped
    ELSE appendSkippedNoCap(Append(skipped, p), p + 1, pn)

\* the loop of SentPacket over the packet numbers lastSent+1 .. pn-1
RECURSIVE appendSkipped(_, _, _)
appendSkipped(skipped, p, pn) ==
    IF p >= pn THEN skipped
    ELSE LET s1 == Append(skipped, p)
             s2 == IF Len(s1) > MaxTrackedSkippedPackets THEN Tail(s1) ELSE s1
         IN  appendSkipped(s2, p + 1, pn)

hasOutstandingRetransmittablePacket(hh) ==
    \E i \in 1..Len(hh.packetHistory) : hh.packetHistory[i].Frames # <<>>

hasMultipleOutstandingRetransmittablePackets(hh) == Len(hh.packetHistory) >= 2

(***************************************************************************)
(* A time.Duration is an int64 of nanoseconds.  Where its width matters it *)
(* is held as four 16-bit limbs, least significant first, in two's         *)
(* complement; everywhere else durations are whole milliseconds.           *)
(***************************************************************************)
Limb == 2 ^ 16

\* ms * time.Millisecond for 0 <= ms < 2^16; 10^6 = 15 * 2^16 + 16960
Duration64(ms) ==
    LET lo  == ms * 16960
        mid == ms * 15 + lo \div Limb
    IN  <<lo % Limb, mid % Limb, mid \div Limb, 0>>

\* rto << rtoCount: the bits shifted past bit 63 are lost, and a count of
\* 64 or more leaves zero
ShiftLeft(d, n) ==
    IF n >= 64 THEN <<0, 0, 0, 0>>
    ELSE LET q == n \div 16
             p == 2 ^ (n % 16)
             limb(i) == IF i < 1 THEN 0 ELSE d[i]
             out(i) == ((limb(i - q) * p) % Limb) + ((limb(i - q - 1) * p) \div Limb)
         IN  <<out(1), out(2), out(3), out(4)>>

\* the sign bit of the int64
Negative64(d) == d[4] >= Limb \div 2

\* a <= b for two durations that are not negative
LessEq64(a, b) ==
    \/ a[4] < b[4]
    \/ a[4] = b[4] /\ a[3] < b[3]
    \/ a[4] = b[4] /\ a[3] = b[3] /\ a[2] < b[2]
    \/ a[4] = b[4] /\ a[3] = b[3] /\ a[2] = b[2] /\ a[1] <= b[1]

\* d / time.Millisecond for 0 <= d < 2^46; 10^6 = 2^6 * 15625
Milliseconds(d) == (((d[3] * Limb + d[2]) * 1024) + d[1] \div 64) \div 15625

\* The result is in milliseconds.  A result below zero is given as -1: its
\* only use is under MaxDuration(., minRetransmissionTime) in
\* updateLossDetectionAlarm, which looks at nothing but its order.
computeRTOTimeout(hh, r) ==
    LET rto0 == RetransmissionDelay(r)
        rto1 == IF rto0 = 0 THEN defaultRTOTimeout ELSE rto0
        rto2 == Max(rto1, minRTOTimeout)
        rto  == ShiftLeft(Duration64(rto2), hh.rtoCount)
    IN  IF Negative64(rto) THEN -1
        ELSE IF LessEq64(Duration64(maxRTOTimeout), rto) THEN maxRTOTimeout
        ELSE Milliseconds(rto)

computeTLPTimeout(hh, r) ==
    LET rtt == r.smoothedRTT
    IN  IF hasMultipleOutstandingRetransmittablePackets(hh)
        THEN Max(2 * rtt, (rtt * 3) \div 2 + minRetransmissionTime \div 2)
        ELSE Max(2 * rtt, minTailLossProbeTimeout)

\* updateLossDetectionAlarm that leaves the alarm armed when nothing is outstanding
updateLossDetectionAlarmKeepArmed(hh, r) ==
    IF Len(hh.packetHistory) = 0 THEN hh
    ELSE IF hh.lossTime # 0 THEN [hh EXCEPT !.alarm = hh.lossTime]
    ELSE IF r.smoothedRTT # 0 /\ hh.tlpCount < maxTailLossProbes
         THEN [hh EXCEPT !.alarm = hh.lastSentTime + computeTLPTimeout(hh, r)]
    ELSE [hh EXCEPT !.alarm = hh.lastSentTime
                               + Max(computeRTOTimeout(hh, r), minRetransmissionTime)]

updateLossDetectionAlarm(hh, r) ==
    IF Len(hh.packetHistory) = 0 THEN [hh EXCEPT !.alarm = 0]
    ELSE IF hh.lossTime # 0 THEN [hh EXCEPT !.alarm = hh.lossTime]
    ELSE IF r.smoothedRTT # 0 /\ hh.tlpCount < maxTailLossProbes
         THEN [hh EXCEPT !.alarm = hh.lastSentTime + computeTLPTimeout(hh, r)]
    ELSE [hh EXCEPT !.alarm = hh.lastSentTime
                               + Max(computeRTOTimeout(hh, r), minRetransmissionTime)]

\* a *wire.StopWaitingFrame is a sequence: <<>> is nil, <<f>> points to f
NilFrame == <<>>
StopWaitingFrame(leastUnacked) == <<[LeastUnacked |-> leastUnacked]>>

\* the zero value of the struct
NewStopWaitingManager ==
    [largestLeastUnackedSent |-> 0, nextLeastUnacked |-> 0,
     lastStopWaitingFrame |-> NilFrame]

NoStopWaitingFrame == [op |-> "none", force |-> FALSE, frame |-> NilFrame]

\* GetStopWaitingFrame that emits a frame when nextLeastUnacked >= largestLeastUnackedSent
GetStopWaitingFrameResultAgain(s, force) ==
    IF s.nextLeastUnacked < s.largestLeastUnackedSent
    THEN IF force
         THEN LET s1 == IF s.lastStopWaitingFrame = NilFrame /\ s.largestLeastUnackedSent > 0
                        THEN [s EXCEPT !.lastStopWaitingFrame =
                                          StopWaitingFrame(s.nextLeastUnacked)]
                        ELSE s
              IN  [s |-> s1, frame |-> s1.lastStopWaitingFrame]
         ELSE [s |-> s, frame |-> NilFrame]
    ELSE LET frame == StopWaitingFrame(s.nextLeastUnacked)
         IN  [s |-> [s EXCEPT !.largestLeastUnackedSent = s.nextLeastUnacked,
                              !.lastStopWaitingFrame = frame],
              frame |-> frame]

\* stopWaitingManager.GetStopWaitingFrame: the manager afterwards and the
\* frame returned
GetStopWaitingFrameResult(s, force) ==
    IF s.nextLeastUnacked <= s.largestLeastUnackedSent
    THEN IF force
         THEN LET s1 == IF s.lastStopWaitingFrame = NilFrame /\ s.largestLeastUnackedSent > 0
                        THEN [s EXCEPT !.lastStopWaitingFrame =
                                          StopWaitingFrame(s.nextLeastUnacked)]
                        ELSE s
              IN  [s |-> s1, frame |-> s1.lastStopWaitingFrame]
         ELSE [s |-> s, frame |-> NilFrame]
    ELSE LET frame == StopWaitingFrame(s.nextLeastUnacked)
         IN  [s |-> [s EXCEPT !.largestLeastUnackedSent = s.nextLeastUnacked,
                              !.lastStopWaitingFrame = frame],
              frame |-> frame]

\* stopWaitingManager.ReceivedAck
swmReceivedAck(hh, f) ==
    IF f.LargestAcked >= hh.nextLeastUnacked
    THEN [hh EXCEPT !.nextLeastUnacked = f.LargestAcked + 1] ELSE hh

\* stopWaitingManager.QueuedRetransmissionForPacketNumber
QueuedRetransmissionForPacketNumber(hh, p) ==
    IF p >= hh.nextLeastUnacked
    THEN [hh EXCEPT !.nextLeastUnacked = p + 1] ELSE hh

onPacketAckedNoDecrement(hh, pkt) ==
    [hh EXCEPT !.rtoCount = 0, !.tlpCount = 0,
               !.packetHistory = Remove(hh.packetHistory, pkt.PacketNumber)]

onPacketAcked(hh, pkt) ==
    [hh EXCEPT !.bytesInFlight = hh.bytesInFlight - pkt.Length,
               !.rtoCount = 0, !.tlpCount = 0,
               !.packetHistory = Remove(hh.packetHistory, pkt.PacketNumber)]

\* queuePacketForRetransmission that leaves the packet in the history
queuePacketForRetransmissionKept(hh, pkt) ==
    QueuedRetransmissionForPacketNumber(
        [hh EXCEPT !.bytesInFlight = hh.bytesInFlight - pkt.Length,
                   !.retransmissionQueue = Append(hh.retransmissionQueue, pkt)],
        pkt.PacketNumber)

queuePacketForRetransmission(hh, pkt) ==
    QueuedRetransmissionForPacketNumber(
        [hh EXCEPT !.bytesInFlight = hh.bytesInFlight - pkt.Length,
                   !.retransmissionQueue = Append(hh.retransmissionQueue, pkt),
                   !.packetHistory = Remove(hh.packetHistory, pkt.PacketNumber)],
        pkt.PacketNumber)

\* for _, p := range packets { f(h, p) }
RECURSIVE ackAll(_, _)
ackAll(hh, pkts) ==
    IF pkts = <<>> THEN hh ELSE ackAll(onPacketAcked(hh, Head(pkts)), Tail(pkts))

RECURSIVE queueAll(_, _)
queueAll(hh, pkts) ==
    IF pkts = <<>> THEN hh
    ELSE queueAll(queuePacketForRetransmission(hh, Head(pkts)), Tail(pkts))

\* skippedPacketsAcked looking at the frame's largest number only
skippedPacketsAckedLargestOnly(hh, f) ==
    \E i \in 1..Len(hh.skippedPackets) : hh.skippedPackets[i] = f.LargestAcked

skippedPacketsAcked(hh, f) ==
    \E i \in 1..Len(hh.skippedPackets) : AcksPacket(f, hh.skippedPackets[i])

\* garbageCollectSkippedPackets keeping the number equal to largestInOrderAcked
garbageCollectSkippedPacketsBelow(hh) ==
    LET lioa == largestInOrderAcked(hh)
        idx == {i \in 1..Len(hh.skippedPackets) : hh.skippedPackets[i] < lioa}
        deleteIndex == IF idx = {} THEN 0 ELSE SetMax(idx)
    IN  [hh EXCEPT !.skippedPackets =
                       SubSeq(hh.skippedPackets, deleteIndex + 1, Len(hh.skippedPackets))]

garbageCollectSkippedPackets(hh) ==
    LET lioa == largestInOrderAcked(hh)
        idx == {i \in 1..Len(hh.skippedPackets) : hh.skippedPackets[i] <= lioa}
        deleteIndex == IF idx = {} THEN 0 ELSE SetMax(idx)
    IN  [hh EXCEPT !.skippedPackets =
                       SubSeq(hh.skippedPackets, deleteIndex + 1, Len(hh.skippedPackets))]

\* the walk that never moves on to the next ACK range
advanceAckRangeStuck(f, pn, ari) == ari

\* the walk of determineNewlyAckedPackets from element i on, with ackRangeIndex ari
RECURSIVE advanceAckRange(_, _, _)
advanceAckRange(f, pn, ari) ==
    LET n == Len(f.AckRanges)
    IN  IF pn > f.AckRanges[n - ari].Last /\ ari < n - 1
        THEN advanceAckRange(f, pn, ari + 1)
        ELSE ari

RECURSIVE determineFrom(_, _, _, _, _)
determineFrom(hist, f, i, ari, acked) ==
    IF i > Len(hist) THEN [ackedPackets |-> acked, err |-> "nil"]
    ELSE LET pn == hist[i].PacketNumber
         IN  IF pn < f.LowestAcked THEN determineFrom(hist, f, i + 1, ari, acked)
             ELSE IF pn > f.LargestAcked THEN [ackedPackets |-> acked, err |-> "nil"]
             ELSE IF HasMissingRanges(f)
                  THEN LET ari2 == advanceAckRange(f, pn, ari)
                           ackRange == f.AckRanges[Len(f.AckRanges) - ari2]
                       IN  IF pn >= ackRange.First
                           THEN IF pn > ackRange.Last
                                THEN [ackedPackets |-> <<>>, err |-> "BUG"]
                                ELSE determineFrom(hist, f, i + 1, ari2, Append(acked, hist[i]))
                           ELSE determineFrom(hist, f, i + 1, ari2, acked)
                  ELSE determineFrom(hist, f, i + 1, ari, Append(acked, hist[i]))

determineNewlyAckedPackets(hh, f) == determineFrom(hh.packetHistory, f, 1, 0, <<>>)

\* the RTT sample of the packet LargestAcked, when it is in the history
maybeUpdateRTT(hh, r, largestAcked, ackDelay, rcvTime) ==
    LET idx == {i \in 1..Len(hh.packetHistory) :
                    hh.packetHistory[i].PacketNumber = largestAcked}
    IN  IF idx = {} THEN r
        ELSE UpdateRTT(r, rcvTime - hh.packetHistory[SetMin(idx)].SendTime, ackDelay)

\* the packets of the history up to LargestAcked (the walk breaks at the first larger one)
RECURSIVE upToLargestAcked(_, _)
upToLargestAcked(hist, la) ==
    IF hist = <<>> \/ Head(hist).PacketNumber > la THEN <<>>
    ELSE <<Head(hist)>> \o upToLargestAcked(Tail(hist), la)

delayUntilLost(r) == (9 * Max(r.latestRTT, r.smoothedRTT)) \div 8

\* detectLostPackets that walks the whole history, beyond LargestAcked
detectLostPacketsBeyondLargestAcked(hh, r, t) ==
    LET cand == hh.packetHistory
        d == delayUntilLost(r)
        lostPackets == SelectSeq(cand, LAMBDA p : t - p.SendTime > d)
        aging == SelectSeq(cand, LAMBDA p : ~ (t - p.SendTime > d))
        lt == IF aging = <<>> THEN 0 ELSE t + (d - (t - Head(aging).SendTime))
    IN  queueAll([hh EXCEPT !.lossTime = lt], lostPackets)

detectLostPackets(hh, r, t) ==
    LET cand == upToLargestAcked(hh.packetHistory, hh.LargestAcked)
        d == delayUntilLost(r)
        lostPackets == SelectSeq(cand, LAMBDA p : t - p.SendTime > d)
        aging == SelectSeq(cand, LAMBDA p : ~ (t - p.SendTime > d))
        lt == IF aging = <<>> THEN 0 ELSE t + (d - (t - Head(aging).SendTime))
    IN  queueAll([hh EXCEPT !.lossTime = lt], lostPackets)

SetInflightAsLost(hh) ==
    queueAll(hh, upToLargestAcked(hh.packetHistory, hh.LargestAcked))

retransmitTLP(hh) ==
    IF hh.packetHistory # <<>>
    THEN queuePacketForRetransmission(hh, hh.packetHistory[Len(hh.packetHistory)])
    ELSE hh

retransmitOldestPacket(hh) ==
    IF hh.packetHistory # <<>>
    THEN queuePacketForRetransmission(hh, Head(hh.packetHistory))
    ELSE hh

\* retransmitOldestTwoPackets that queues the oldest packet only
retransmitOldestTwoPacketsOnce(hh) == retransmitOldestPacket(hh)

retransmitOldestTwoPackets(hh) == retransmitOldestPacket(retransmitOldestPacket(hh))

retransmitAllPackets(hh) == queueAll(hh, hh.packetHistory)

(***************************************************************************)
(* The entry points, as functions of the handler: the handler and the RTT  *)
(* statistics after the call, the error returned and the packets acked.    *)
(***************************************************************************)
Result(hh, r, e, acked) == [h |-> hh, rttStats |-> r, err |-> e, acked |-> acked]

\* SentPacket with the first check off by one: a repeated number is accepted
SentPacketResultRepeat(hh, r, packet, t) ==
    IF packet.PacketNumber < hh.lastSentPacketNumber
    THEN Result(hh, r, "PacketNumberNotIncreasing", {})
    ELSE IF Len(hh.retransmissionQueue) + Len(hh.packetHistory) + 1 > MaxTrackedSentPackets
    THEN Result(hh, r, "TooManyTrackedSentPackets", {})
    ELSE LET frames == stripNonRetransmittableFrames(packet.Frames)
             h1 == [hh EXCEPT !.skippedPackets =
                                  appendSkipped(hh.skippedPackets,
                                                hh.lastSentPacketNumber + 1,
                                                packet.PacketNumber),
                              !.lastSentPacketNumber = packet.PacketNumber,
                              !.lastSentTime = t]
             h2 == IF Len(frames) # 0
                   THEN [h1 EXCEPT !.bytesInFlight = h1.bytesInFlight + packet.Length,
                                   !.packetHistory =
                                       Append(h1.packetHistory,
                                              [PacketNumber |-> packet.PacketNumber,
                                               Length |-> packet.Length,
                                               Frames |-> frames,
                                               SendTime |-> t])]
                   ELSE h1
         IN  Result(updateLossDetectionAlarm(h2, r), r, "nil", {})

\* SentPacket that keeps every packet in the history, retransmittable or not
SentPacketResultKeepAll(hh, r, packet, t) ==
    IF packet.PacketNumber <= hh.lastSentPacketNumber
    THEN Result(hh, r, "PacketNumberNotIncreasing", {})
    ELSE IF Len(hh.retransmissionQueue) + Len(hh.packetHistory) + 1 > MaxTrackedSentPackets
    THEN Result(hh, r, "TooManyTrackedSentPackets", {})
    ELSE LET frames == stripNonRetransmittableFrames(packet.Frames)
             h1 == [hh EXCEPT !.skippedPackets =
                                  appendSkipped(hh.skippedPackets,
                                                hh.lastSentPacketNumber + 1,
                                                packet.PacketNumber),
                              !.lastSentPacketNumber = packet.PacketNumber,
                              !.lastSentTime = t]
             h2 == [h1 EXCEPT !.bytesInFlight = h1.bytesInFlight + packet.Length,
                              !.packetHistory =
                                  Append(h1.packetHistory,
                                         [PacketNumber |-> packet.PacketNumber,
                                          Length |-> packet.Length,
                                          Frames |-> frames,
                                          SendTime |-> t])]
         IN  Result(updateLossDetectionAlarm(h2, r), r, "nil", {})

SentPacketResult(hh, r, packet, t) ==
    IF packet.PacketNumber <= hh.lastSentPacketNumber
    THEN Result(hh, r, "PacketNumberNotIncreasing", {})
    ELSE IF Len(hh.retransmissionQueue) + Len(hh.packetHistory) + 1 > MaxTrackedSentPackets
    THEN Result(hh, r, "TooManyTrackedSentPackets", {})
    ELSE LET frames == stripNonRetransmittableFrames(packet.Frames)
             isRetransmittable == Len(frames) # 0
             h1 == [hh EXCEPT !.skippedPackets =
                                  appendSkipped(hh.skippedPackets,
                                                hh.lastSentPacketNumber + 1,
                                                packet.PacketNumber),
                              !.lastSentPacketNumber = packet.PacketNumber,
                              !.lastSentTime = t]
             h2 == IF isRetransmittable
                   THEN [h1 EXCEPT !.bytesInFlight = h1.bytesInFlight + packet.Length,
                                   !.packetHistory =
                                       Append(h1.packetHistory,
                                              [PacketNumber |-> packet.PacketNumber,
                                               Length |-> packet.Length,
                                               Frames |-> frames,
                                               SendTime |-> t])]
                   ELSE h1
         IN  Result(updateLossDetectionAlarm(h2, r), r, "nil", {})

\* ReceivedAck with the duplicate check off by one: the same carrying packet
\* number is accepted twice
ReceivedAckResultRepeat(hh, r, ackFrame, withPacketNumber, rcvTime) ==
    IF ackFrame.LargestAcked > hh.lastSentPacketNumber
    THEN Result(hh, r, "AckForUnsentPacket", {})
    ELSE IF withPacketNumber < hh.largestReceivedPacketWithAck
    THEN Result(hh, r, "DuplicateOrOutOfOrderAck", {})
    ELSE LET h1 == [hh EXCEPT !.largestReceivedPacketWithAck = withPacketNumber]
         IN  IF ackFrame.LargestAcked <= largestInOrderAcked(h1)
             THEN Result(h1, r, "nil", {})
             ELSE LET h2 == [h1 EXCEPT !.LargestAcked = ackFrame.LargestAcked]
                  IN  IF skippedPacketsAcked(h2, ackFrame)
                      THEN Result(h2, r, "AckForSkippedPacket", {})
                      ELSE LET r2 == maybeUpdateRTT(h2, r, ackFrame.LargestAcked,
                                                    ackFrame.DelayTime, rcvTime)
                               det == determineNewlyAckedPackets(h2, ackFrame)
                           IN  IF det.err # "nil" THEN Result(h2, r2, det.err, {})
                               ELSE LET h3 == ackAll(h2, det.ackedPackets)
                                        h4 == detectLostPackets(h3, r2, rcvTime)
                                        h5 == updateLossDetectionAlarm(h4, r2)
                                        h6 == garbageCollectSkippedPackets(h5)
                                        h7 == swmReceivedAck(h6, ackFrame)
                                    IN  Result(h7, r2, "nil", PNs(det.ackedPackets))

\* ReceivedAck that records LargestAcked before it ignores a repeated ACK
ReceivedAckResultStaleLate(hh, r, ackFrame, withPacketNumber, rcvTime) ==
    IF ackFrame.LargestAcked > hh.lastSentPacketNumber
    THEN Result(hh, r, "AckForUnsentPacket", {})
    ELSE IF withPacketNumber <= hh.largestReceivedPacketWithAck
    THEN Result(hh, r, "DuplicateOrOutOfOrderAck", {})
    ELSE LET h1 == [hh EXCEPT !.largestReceivedPacketWithAck = withPacketNumber]
             h2 == [h1 EXCEPT !.LargestAcked = ackFrame.LargestAcked]
         IN  IF ackFrame.LargestAcked <= largestInOrderAcked(h1)
             THEN Result(h2, r, "nil", {})
             ELSE IF skippedPacketsAcked(h2, ackFrame)
                  THEN Result(h2, r, "AckForSkippedPacket", {})
                  ELSE LET r2 == maybeUpdateRTT(h2, r, ackFrame.LargestAcked,
                                                ackFrame.DelayTime, rcvTime)
                           det == determineNewlyAckedPackets(h2, ackFrame)
                       IN  IF det.err # "nil" THEN Result(h2, r2, det.err, {})
                           ELSE LET h3 == ackAll(h2, det.ackedPackets)
                                    h4 == detectLostPackets(h3, r2, rcvTime)
                                    h5 == updateLossDetectionAlarm(h4, r2)
                                    h6 == garbageCollectSkippedPackets(h5)
                                    h7 == swmReceivedAck(h6, ackFrame)
                                IN  Result(h7, r2, "nil", PNs(det.ackedPackets))

ReceivedAckResult(hh, r, ackFrame, withPacketNumber, rcvTime) ==
    IF ackFrame.LargestAcked > hh.lastSentPacketNumber
    THEN Result(hh, r, "AckForUnsentPacket", {})
    ELSE IF withPacketNumber <= hh.largestReceivedPacketWithAck
    THEN Result(hh, r, "DuplicateOrOutOfOrderAck", {})
    ELSE LET h1 == [hh EXCEPT !.largestReceivedPacketWithAck = withPacketNumber]
         IN  IF ackFrame.LargestAcked <= largestInOrderAcked(h1)
             THEN Result(h1, r, "nil", {})
             ELSE LET h2 == [h1 EXCEPT !.LargestAcked = ackFrame.LargestAcked]
                  IN  IF skippedPacketsAcked(h2, ackFrame)
                      THEN Result(h2, r, "AckForSkippedPacket", {})
                      ELSE LET r2 == maybeUpdateRTT(h2, r, ackFrame.LargestAcked,
                                                    ackFrame.DelayTime, rcvTime)
                               det == determineNewlyAckedPackets(h2, ackFrame)
                           IN  IF det.err # "nil" THEN Result(h2, r2, det.err, {})
                               ELSE LET h3 == ackAll(h2, det.ackedPackets)
                                        h4 == detectLostPackets(h3, r2, rcvTime)
                                        h5 == updateLossDetectionAlarm(h4, r2)
                                        h6 == garbageCollectSkippedPackets(h5)
                                        h7 == swmReceivedAck(h6, ackFrame)
                                    IN  Result(h7, r2, "nil", PNs(det.ackedPackets))

\* ReceivedClosePath with the first two checks in the wrong order: the frame
\* is recorded as received before it is found to acknowledge an unsent packet
ReceivedClosePathResultReordered(hh, r, f, withPacketNumber) ==
    IF withPacketNumber <= hh.largestReceivedPacketWithAck
    THEN Result(hh, r, "DuplicateOrOutOfOrderAck", {})
    ELSE LET h1 == [hh EXCEPT !.largestReceivedPacketWithAck = withPacketNumber]
         IN  IF f.LargestAcked > hh.lastSentPacketNumber
             THEN Result(h1, r, "AckForUnsentPacket", {})
             ELSE IF skippedPacketsAcked(h1, f)
             THEN Result(h1, r, "AckForSkippedPacket", {})
             ELSE LET det == determineNewlyAckedPackets(h1, f)
                  IN  IF det.err # "nil" THEN Result(h1, r, det.err, {})
                      ELSE LET h2 == ackAll(h1, det.ackedPackets)
                               h3 == SetInflightAsLost(h2)
                               h4 == garbageCollectSkippedPackets(h3)
                           IN  Result(h4, r, "nil", PNs(det.ackedPackets))

ReceivedClosePathResult(hh, r, f, withPacketNumber) ==
    IF f.LargestAcked > hh.lastSentPacketNumber
    THEN Result(hh, r, "AckForUnsentPacket", {})
    ELSE IF withPacketNumber <= hh.largestReceivedPacketWithAck
    THEN Result(hh, r, "DuplicateOrOutOfOrderAck", {})
    ELSE LET h1 == [hh EXCEPT !.largestReceivedPacketWithAck = withPacketNumber]
         IN  IF skippedPacketsAcked(h1, f)
             THEN Result(h1, r, "AckForSkippedPacket", {})
             ELSE LET det == determineNewlyAckedPackets(h1, f)
                  IN  IF det.err # "nil" THEN Result(h1, r, det.err, {})
                      ELSE LET h2 == ackAll(h1, det.ackedPackets)
                               h3 == SetInflightAsLost(h2)
                               h4 == garbageCollectSkippedPackets(h3)
                           IN  Result(h4, r, "nil", PNs(det.ackedPackets))

\* SendingAllowed without the workaround for queued retransmissions
SendingAllowedCongestionOnly(hh, congestionWindow) ==
    LET congestionLimited == hh.bytesInFlight > congestionWindow
        maxTrackedLimited ==
            Len(hh.retransmissionQueue) + Len(hh.packetHistory) >= MaxTrackedSentPackets
    IN  ~ maxTrackedLimited /\ ~ congestionLimited

\* congestionWindow is what h.congestion.GetCongestionWindow() returns
SendingAllowedResult(hh, congestionWindow) ==
    LET congestionLimited == hh.bytesInFlight > congestionWindow
        maxTrackedLimited ==
            Len(hh.retransmissionQueue) + Len(hh.packetHistory) >= MaxTrackedSentPackets
        haveRetransmissions == Len(hh.retransmissionQueue) > 0
    IN  ~ maxTrackedLimited /\ (~ congestionLimited \/ haveRetransmissions)

DuplicatePacketResult(hh, packet) ==
    [hh EXCEPT !.retransmissionQueue = Append(hh.retransmissionQueue, packet)]

\* OnAlarm that sends a tail loss probe while tlpCount <= maxTailLossProbes
OnAlarmResultThreeProbes(hh, r, potentiallyFailed, t) ==
    IF ~ hasOutstandingRetransmittablePacket(hh)
    THEN Result([hh EXCEPT !.alarm = 0], r, "nil", {})
    ELSE LET h1 == IF hh.lossTime # 0 THEN detectLostPackets(hh, r, t)
                   ELSE IF hh.tlpCount <= maxTailLossProbes
                        THEN LET ht == retransmitTLP(hh)
                             IN  [ht EXCEPT !.tlpCount = ht.tlpCount + 1]
                   ELSE LET hr == IF potentiallyFailed THEN retransmitAllPackets(hh)
                                  ELSE retransmitOldestTwoPackets(hh)
                        IN  [hr EXCEPT !.rtoCount = hr.rtoCount + 1]
         IN  Result(updateLossDetectionAlarm(h1, r), r, "nil", {})

OnAlarmResult(hh, r, potentiallyFailed, t) ==
    IF ~ hasOutstandingRetransmittablePacket(hh)
    THEN Result([hh EXCEPT !.alarm = 0], r, "nil", {})
    ELSE LET h1 == IF hh.lossTime # 0 THEN detectLostPackets(hh, r, t)
                   ELSE IF hh.tlpCount < maxTailLossProbes
                        THEN LET ht == retransmitTLP(hh)
                             IN  [ht EXCEPT !.tlpCount = ht.tlpCount + 1]
                   ELSE LET hr == IF potentiallyFailed THEN retransmitAllPackets(hh)
                                  ELSE retransmitOldestTwoPackets(hh)
                        IN  [hr EXCEPT !.rtoCount = hr.rtoCount + 1]
         IN  Result(updateLossDetectionAlarm(h1, r), r, "nil", {})

(***************************************************************************)
(* The packet packer.  Lengths are counted in units of one minimal frame,  *)
(* and MaxFrameSize stands for                                             *)
(* MaxPacketSize - sealer.Overhead() - publicHeaderLength.                 *)
(***************************************************************************)
Paths == {1, 2}
Perspectives == {"client", "server"}
EncryptionLevels == {"unencrypted", "secure", "forward-secure"}

\* the stream frames the streams of the session can hand to the framer:
\* stream 5 is assigned to path 1, stream 7 to path 2
StreamFrames == {StreamFrame(5, 1), StreamFrame(7, 2)}
StreamIDs == {5, 7}
\* what QueueControlFrame can be given
QueuedFrames == {Frame("stop_waiting"), Frame("ack"), Frame("ping"), Frame("window_update")}

MinLength(frame) ==
    IF frame.Type = "stream" /\ frame.DataLenPresent THEN 1 + DataLenBytes
    ELSE IF frame.Type = "connection_close" THEN 1 + frame.ReasonPhrase
    ELSE 1

\* what frame.Write puts in the buffer for the frames of a packet
RECURSIVE WrittenLength(_)
WrittenLength(frames) ==
    IF frames = <<>> THEN 0 ELSE MinLength(Head(frames)) + WrittenLength(Tail(frames))

\* the CONNECTION_CLOSE frames the session closes with: a short reason
\* phrase, and one that does not fit in a packet
ConnectionCloseFrames == {ConnectionCloseFrame(0), ConnectionCloseFrame(MaxFrameSize)}

\* packetNumberGenerator: Peek returns the next number, Pop returns it and
\* moves to the number after it, leaving out the number to skip.  The
\* generator draws the number to skip when it is made: the one of path 1 has
\* drawn 2, the one of path 2 a number beyond those used here.
nextToSkip == [pth \in Paths |-> IF pth = 1 THEN 2 ELSE 0]
Peek(gen, pth) == gen[pth]
Pop(gen, pth) ==
    [gen EXCEPT ![pth] = IF gen[pth] + 1 = nextToSkip[pth] THEN gen[pth] + 2
                         ELSE gen[pth] + 1]

NoPacket == [some |-> FALSE, number |-> 0, frames |-> <<>>, encryptionLevel |-> "none"]
packedPacket(number, frames, level) ==
    [some |-> TRUE, number |-> number, frames |-> frames, encryptionLevel |-> level]

newPacketPacker(perspective) ==
    [controlFrames |-> <<>>,
     stopWaiting |-> [pth \in Paths |-> FALSE],
     ackFrame |-> [pth \in Paths |-> FALSE],
     perspective |-> perspective]

\* what a pack call returns, and the packer, framer and generator it leaves
PackResult(pp, sf, gen, packet, err) ==
    [p |-> pp, streamFramer |-> sf, packetNumberGenerator |-> gen,
     packet |-> packet, err |-> err]

canSendData(pp, level) ==
    IF pp.perspective = "client" THEN level \in {"secure", "forward-secure"}
    ELSE level = "forward-secure"

QueueControlFrameResult(pp, frame, pth) ==
    IF frame.Type = "stop_waiting" THEN [pp EXCEPT !.stopWaiting[pth] = TRUE]
    ELSE IF frame.Type = "ack" THEN [pp EXCEPT !.ackFrame[pth] = TRUE]
    ELSE [pp EXCEPT !.controlFrames = Append(pp.controlFrames, frame)]

\* streamFramer.PopStreamFrames / PopStreamFramesOfPath / PopStreamFramesOfOneStream:
\* the frames of the queue that the call may take (all, those of the path,
\* those of the stream), in order, as long as they fit in maxLen; the framer
\* hands every frame over with its data length present, and counts its length
\* that way
AllStreams == [kind |-> "all", id |-> 0]
OfPath(pth) == [kind |-> "path", id |-> pth]
OfOneStream(streamID) == [kind |-> "stream", id |-> streamID]
eligible(filter, f) ==
    \/ filter.kind = "all"
    \/ filter.kind = "path" /\ f.PathID = filter.id
    \/ filter.kind = "stream" /\ f.StreamID = filter.id

RECURSIVE PopStreamFramesFrom(_, _, _, _, _)
PopStreamFramesFrom(queue, maxLen, filter, popped, kept) ==
    IF queue = <<>> THEN [fs |-> popped, streamFrames |-> kept]
    ELSE LET frame == [Head(queue) EXCEPT !.DataLenPresent = TRUE]
         IN  IF eligible(filter, frame) /\ MinLength(frame) <= maxLen
             THEN PopStreamFramesFrom(Tail(queue), maxLen - MinLength(frame),
                                      filter, Append(popped, frame), kept)
             ELSE PopStreamFramesFrom(Tail(queue), maxLen, filter, popped,
                                      Append(kept, Head(queue)))

\* the loop over the control frames, taking them from the head of the queue
RECURSIVE popControlFramesFromHead(_, _, _, _)
popControlFramesFromHead(controlFrames, payloadFrames, payloadLength, maxFrameSize) ==
    IF controlFrames = <<>>
    THEN [controlFrames |-> controlFrames, payloadFrames |-> payloadFrames,
          payloadLength |-> payloadLength]
    ELSE LET frame == Head(controlFrames)
         IN  IF payloadLength + MinLength(frame) > maxFrameSize
             THEN [controlFrames |-> controlFrames, payloadFrames |-> payloadFrames,
                   payloadLength |-> payloadLength]
             ELSE popControlFramesFromHead(Tail(controlFrames),
                                           Append(payloadFrames, frame),
                                           payloadLength + MinLength(frame),
                                           maxFrameSize)

\* the loop of composeNextPacket over the control frames, from the tail
RECURSIVE popControlFrames(_, _, _, _)
popControlFrames(controlFrames, payloadFrames, payloadLength, maxFrameSize) ==
    IF controlFrames = <<>>
    THEN [controlFrames |-> controlFrames, payloadFrames |-> payloadFrames,
          payloadLength |-> payloadLength]
    ELSE LET frame == controlFrames[Len(controlFrames)]
         IN  IF payloadLength + MinLength(frame) > maxFrameSize
             THEN [controlFrames |-> controlFrames, payloadFrames |-> payloadFrames,
                   payloadLength |-> payloadLength]
             ELSE popControlFrames(SubSeq(controlFrames, 1, Len(controlFrames) - 1),
                                   Append(payloadFrames, frame),
                                   payloadLength + MinLength(frame), maxFrameSize)

\* composeNextPacket that leaves the last stream frame as the framer hands it
\* over
composeNextPacketKeepDataLen(pp, sf, maxFrameSize, canSendStreamFrames, pth, filter, blocked) ==
    LET f1 == IF pp.stopWaiting[pth] THEN <<Frame("stop_waiting")>> ELSE <<>>
        f2 == IF pp.ackFrame[pth] THEN Append(f1, Frame("ack")) ELSE f1
        c  == popControlFrames(pp.controlFrames, f2, Len(f2), maxFrameSize)
        p1 == [pp EXCEPT !.controlFrames = c.controlFrames]
    IN  IF c.payloadLength > maxFrameSize
        THEN [p |-> p1, streamFramer |-> sf, payloadFrames |-> <<>>, err |-> "BUG"]
        ELSE IF ~ canSendStreamFrames
        THEN [p |-> p1, streamFramer |-> sf, payloadFrames |-> c.payloadFrames, err |-> "nil"]
        ELSE LET pop == PopStreamFramesFrom(sf.streamFrames,
                                            maxFrameSize + DataLenBytes - c.payloadLength,
                                            filter, <<>>, <<>>)
                 fs == pop.fs
                 p2 == IF blocked
                       THEN [p1 EXCEPT !.controlFrames =
                                           Append(p1.controlFrames, Frame("blocked"))]
                       ELSE p1
             IN  [p |-> p2, streamFramer |-> [sf EXCEPT !.streamFrames = pop.streamFrames],
                  payloadFrames |-> c.payloadFrames \o fs, err |-> "nil"]

\* composeNextPacket, composeNextPacketOfPath and composeNextPacketOfStream
\* differ in the stream frames they may pop (filter); blocked tells whether
\* the framer has a BLOCKED frame to hand over after popping
composeNextPacket(pp, sf, maxFrameSize, canSendStreamFrames, pth, filter, blocked) ==
    LET f1 == IF pp.stopWaiting[pth] THEN <<Frame("stop_waiting")>> ELSE <<>>
        f2 == IF pp.ackFrame[pth] THEN Append(f1, Frame("ack")) ELSE f1
        c  == popControlFrames(pp.controlFrames, f2, Len(f2), maxFrameSize)
        p1 == [pp EXCEPT !.controlFrames = c.controlFrames]
    IN  IF c.payloadLength > maxFrameSize
        THEN [p |-> p1, streamFramer |-> sf, payloadFrames |-> <<>>, err |-> "BUG"]
        ELSE IF ~ canSendStreamFrames
        THEN [p |-> p1, streamFramer |-> sf, payloadFrames |-> c.payloadFrames, err |-> "nil"]
        ELSE LET pop == PopStreamFramesFrom(sf.streamFrames,
                                            maxFrameSize + DataLenBytes - c.payloadLength,
                                            filter, <<>>, <<>>)
                 fs == IF pop.fs = <<>> THEN pop.fs
                       ELSE [pop.fs EXCEPT ![Len(pop.fs)].DataLenPresent = FALSE]
                 p2 == IF blocked
                       THEN [p1 EXCEPT !.controlFrames =
                                           Append(p1.controlFrames, Frame("blocked"))]
                       ELSE p1
             IN  [p |-> p2, streamFramer |-> [sf EXCEPT !.streamFrames = pop.streamFrames],
                  payloadFrames |-> c.payloadFrames \o fs, err |-> "nil"]

\* writeAndSealPacket that pops the generator before it writes
writeAndSealPacketPopFirst(gen, pth, payloadFrames, writeFails) ==
    IF writeFails THEN [packetNumberGenerator |-> Pop(gen, pth), err |-> "write"]
    ELSE IF WrittenLength(payloadFrames) > MaxFrameSize
    THEN [packetNumberGenerator |-> Pop(gen, pth), err |-> "too large"]
    ELSE [packetNumberGenerator |-> Pop(gen, pth), err |-> "nil"]

\* writeAndSealPacket without the check of the size
writeAndSealPacketUnchecked(gen, pth, payloadFrames, writeFails) ==
    IF writeFails THEN [packetNumberGenerator |-> gen, err |-> "write"]
    ELSE [packetNumberGenerator |-> Pop(gen, pth), err |-> "nil"]

\* writeAndSealPacket: writing the header or a frame can fail (writeFails);
\* header, frames and sealer overhead are more than MaxPacketSize when the
\* frames are more than MaxFrameSize; the generator is popped only when the
\* packet has been written and sealed
writeAndSealPacket(gen, pth, payloadFrames, writeFails) ==
    IF writeFails THEN [packetNumberGenerator |-> gen, err |-> "write"]
    ELSE IF WrittenLength(payloadFrames) > MaxFrameSize
    THEN [packetNumberGenerator |-> gen, err |-> "too large"]
    ELSE [packetNumberGenerator |-> Pop(gen, pth), err |-> "nil"]

\* cryptoSetup.GetSealerWithEncryptionLevel: a sealer exists for the levels
\* the handshake has reached
sealerAvailable(level, wanted) ==
    \/ wanted = "unencrypted"
    \/ wanted = "secure" /\ level \in {"secure", "forward-secure"}
    \/ wanted = "forward-secure" /\ level = "forward-secure"

\* cryptoSetup.GetSealerForCryptoStream: the crypto stream is never sent
\* forward-secure
cryptoStreamLevel(level) == IF level = "unencrypted" THEN "unencrypted" ELSE "secure"

\* PackConnectionClose that also takes what composeNextPacket would pack
PackConnectionCloseResultWithQueued(pp, sf, gen, level, ccf, pth, writeFails) ==
    LET c == composeNextPacket(pp, sf, MaxFrameSize, canSendData(pp, level),
                               pth, AllStreams, FALSE)
        frames == <<ccf>> \o c.payloadFrames
        w == writeAndSealPacket(gen, pth, frames, writeFails)
    IN  PackResult(c.p, c.streamFramer, w.packetNumberGenerator,
                   packedPacket(Peek(gen, pth), frames, level), w.err)

PackConnectionCloseResult(pp, sf, gen, level, ccf, pth, writeFails) ==
    LET frames == <<ccf>>
        w == writeAndSealPacket(gen, pth, frames, writeFails)
    IN  PackResult(pp, sf, w.packetNumberGenerator,
                   packedPacket(Peek(gen, pth), frames, level), w.err)

PackAckPacketResult(pp, sf, gen, level, pth, writeFails) ==
    IF ~ pp.ackFrame[pth] THEN PackResult(pp, sf, gen, NoPacket, "BUG")
    ELSE LET frames == IF pp.stopWaiting[pth]
                       THEN <<Frame("ack"), Frame("stop_waiting")>>
                       ELSE <<Frame("ack")>>
             p1 == [pp EXCEPT !.stopWaiting[pth] = FALSE, !.ackFrame[pth] = FALSE]
             w == writeAndSealPacket(gen, pth, frames, writeFails)
         IN  PackResult(p1, sf, w.packetNumberGenerator,
                        packedPacket(Peek(gen, pth), frames, level), w.err)

PackHandshakeRetransmissionResult(pp, sf, gen, level, packet, pth, writeFails) ==
    IF packet.EncryptionLevel = "forward-secure"
    THEN PackResult(pp, sf, gen, NoPacket, "BUG")
    ELSE IF ~ sealerAvailable(level, packet.EncryptionLevel)
    THEN PackResult(pp, sf, gen, NoPacket, "sealer")
    ELSE IF ~ pp.stopWaiting[pth]
    THEN PackResult(pp, sf, gen, NoPacket, "BUG")
    ELSE LET frames == <<Frame("stop_waiting")>> \o packet.Frames
             p1 == [pp EXCEPT !.stopWaiting[pth] = FALSE]
             w == writeAndSealPacket(gen, pth, frames, writeFails)
         IN  PackResult(p1, sf, w.packetNumberGenerator,
                        packedPacket(Peek(gen, pth), frames, packet.EncryptionLevel), w.err)

\* streamFramer.PopCryptoStreamFrame: the data of the crypto stream in a
\* frame of at most maxLen
PopCryptoStreamFrame(maxLen) == StreamFrame(1, 0)

packCryptoPacket(pp, sf, gen, level, pth, writeFails) ==
    LET maxLen == MaxFrameSize - NonForwardSecurePacketSizeReduction
        frames == <<PopCryptoStreamFrame(maxLen)>>
        sf1 == [sf EXCEPT !.cryptoStream = FALSE]
        w == writeAndSealPacket(gen, pth, frames, writeFails)
    IN  IF w.err # "nil" THEN PackResult(pp, sf1, gen, NoPacket, w.err)
        ELSE PackResult(pp, sf1, w.packetNumberGenerator,
                        packedPacket(Peek(gen, pth), frames, cryptoStreamLevel(level)), "nil")

\* PackPacket without the refusal of a lone STOP_WAITING frame
PackPacketWithLoneStopWaiting(pp, sf, gen, level, pth, filter, blocked, writeFails) ==
    IF sf.cryptoStream THEN packCryptoPacket(pp, sf, gen, level, pth, writeFails)
    ELSE LET isPing == pp.controlFrames # <<>> /\ Head(pp.controlFrames).Type = "ping"
             c == IF isPing
                  THEN [p |-> [pp EXCEPT !.controlFrames = Tail(pp.controlFrames)],
                        streamFramer |-> sf,
                        payloadFrames |-> <<Head(pp.controlFrames)>>, err |-> "nil"]
                  ELSE composeNextPacket(pp, sf, MaxFrameSize, canSendData(pp, level),
                                         pth, filter, blocked)
         IN  IF c.err # "nil" THEN PackResult(c.p, c.streamFramer, gen, NoPacket, c.err)
             ELSE IF Len(c.payloadFrames) = 0
             THEN PackResult(c.p, c.streamFramer, gen, NoPacket, "nil")
             ELSE LET p1 == [c.p EXCEPT !.stopWaiting[pth] = FALSE, !.ackFrame[pth] = FALSE]
                      w == writeAndSealPacket(gen, pth, c.payloadFrames, writeFails)
                  IN  IF w.err # "nil"
                      THEN PackResult(p1, c.streamFramer, gen, NoPacket, w.err)
                      ELSE PackResult(p1, c.streamFramer, w.packetNumberGenerator,
                                      packedPacket(Peek(gen, pth), c.payloadFrames, level), "nil")

\* the body PackPacket, PackPacketOfPath and PackPacketOfStream share: they
\* differ in the stream frames they may pop (filter)
PackPacketWith(pp, sf, gen, level, pth, filter, blocked, writeFails) ==
    IF sf.cryptoStream THEN packCryptoPacket(pp, sf, gen, level, pth, writeFails)
    ELSE LET isPing == pp.controlFrames # <<>> /\ Head(pp.controlFrames).Type = "ping"
             c == IF isPing
                  THEN [p |-> [pp EXCEPT !.controlFrames = Tail(pp.controlFrames)],
                        streamFramer |-> sf,
                        payloadFrames |-> <<Head(pp.controlFrames)>>, err |-> "nil"]
                  ELSE composeNextPacket(pp, sf, MaxFrameSize, canSendData(pp, level),
                                         pth, filter, blocked)
         IN  IF c.err # "nil" THEN PackResult(c.p, c.streamFramer, gen, NoPacket, c.err)
             ELSE IF Len(c.payloadFrames) = 0
             THEN PackResult(c.p, c.streamFramer, gen, NoPacket, "nil")
             ELSE IF Len(c.payloadFrames) = 1 /\ c.p.stopWaiting[pth]
             THEN PackResult(c.p, c.streamFramer, gen, NoPacket, "nil")
             ELSE LET p1 == [c.p EXCEPT !.stopWaiting[pth] = FALSE, !.ackFrame[pth] = FALSE]
                      w == writeAndSealPacket(gen, pth, c.payloadFrames, writeFails)
                  IN  IF w.err # "nil"
                      THEN PackResult(p1, c.streamFramer, gen, NoPacket, w.err)
                      ELSE PackResult(p1, c.streamFramer, w.packetNumberGenerator,
                                      packedPacket(Peek(gen, pth), c.payloadFrames, level), "nil")

PackPacketResult(pp, sf, gen, level, pth, blocked, writeFails) ==
    PackPacketWith(pp, sf, gen, level, pth, AllStreams, blocked, writeFails)

PackPacketOfPathResult(pp, sf, gen, level, pth, blocked, writeFails) ==
    PackPacketWith(pp, sf, gen, level, pth, OfPath(pth),
                   blocked, writeFails)

PackPacketOfStreamResult(pp, sf, gen, level, pth, streamID, blocked, writeFails) ==
    PackPacketWith(pp, sf, gen, level, pth, OfOneStream(streamID),
                   blocked, writeFails)

PackPingResult(pp, sf, gen, level, pth, blocked, writeFails) ==
    PackPacketResult([pp EXCEPT !.controlFrames = <<Frame("ping")>> \o pp.controlFrames],
                     sf, gen, level, pth, blocked, writeFails)

\* the packets the scheduler hands to PackHandshakeRetransmission: packets
\* dequeued from a handler, which carry the frames SentPacket kept
\* the frames of a packet PackPacket has filled to MaxFrameSize
FullPacketFrames ==
    [i \in 1..(MaxFrameSize - DataLenBytes) |->
        IF i = MaxFrameSize - DataLenBytes THEN StreamFrame(5, 1)
        ELSE Frame("window_update")]

HandshakePackets ==
    {[EncryptionLevel |-> e, Frames |-> stripNonRetransmittableFrames(fs)] :
        e \in EncryptionLevels,
        fs \in {x \in SentFrames \cup {FullPacketFrames} :
                    stripNonRetransmittableFrames(x) # <<>>}}

(***************************************************************************)
(* The state machine of one path's handler.  Each call is one step.  The   *)
(* clock advances by 0 or TimeStep before a frame is received, and to the  *)
(* alarm time when the alarm fires.                                        *)
(*                                                                         *)
(* `last` is the last call and what it returned.  A call that is rejected  *)
(* with the handler untouched is recorded (rejected = TRUE) and the run    *)
(* ends there: what can follow it is what can follow the state before it,  *)
(* which is explored from that state.                                      *)
(***************************************************************************)
(***************************************************************************)
(* The session's paths, the path manager and the scheduler's choice of a   *)
(* path.  Round-trip times are in milliseconds.                            *)
(***************************************************************************)
InitialPathID == 0
\* protocol.PathID(255): selectedPathID while no path is selected
NoPathID == 255

\* the greatest path ID of the model
MaxPathID == 4
\* the entries of a PATHS frame
MaxPathsFrameLen == 2
\* the greatest path ID of the sessions the scheduler is run on
MaxSchedPathID == 2
\* the greatest count of sent packets of a path before the scheduler is run
MaxInitQuota == 1
\* the greatest count of sent packets of a path
MaxQuota == 2

\* the local and the remote addresses; createPath and createPathFromRemote
\* start a path on "10.0.0.1" or "10.0.1.1" with a round-trip time of 1 ms
LocalAddrs == {"10.0.0.1", "10.0.0.2"}
RemoteAddrs == {"10.0.1.1", "10.0.2.1"}

initialRTT(ip) == IF ip \in {"10.0.0.1", "10.0.1.1"} THEN 1 ELSE 0

newPath(pathID, locAddr, remAddr, rtt) ==
    [pathID |-> pathID, conn |-> [loc |-> locAddr, rem |-> remAddr],
     smoothedRTT |-> rtt, sendingAllowed |-> TRUE, potentiallyFailed |-> FALSE]

\* a Go map without keys
EmptyMap == [k \in {} |-> 0]

\* m[k] = v, as Go assigns to a map
Put(m, k, v) == [x \in DOMAIN m \cup {k} |-> IF x = k THEN v ELSE m[x]]

\* m[k], as Go reads an integer from a map: 0 when the key is missing
Get(m, k) == IF k \in DOMAIN m THEN m[k] ELSE 0

\* pathManager.setup: the session after the setup, on the connection conn
setup(perspective, locAddr, remAddr) ==
    [perspective |-> perspective,
     nxtPathID |-> IF perspective = "client" THEN 1 ELSE 2,
     paths |-> Put(EmptyMap, InitialPathID,
                   newPath(InitialPathID, locAddr, remAddr, 0)),
     openPaths |-> <<InitialPathID>>]

addPath(s, pth) ==
    [s EXCEPT !.paths = Put(s.paths, pth.pathID, pth),
              !.openPaths = Append(s.openPaths, pth.pathID)]

\* createPath with nxtPathID advanced by 1
createPathNextByOne(s, locAddr, remAddr, pingFails) ==
    IF \E id \in DOMAIN s.paths :
           s.paths[id].conn = [loc |-> locAddr, rem |-> remAddr]
    THEN [sess |-> s, pathID |-> NoPathID, err |-> "nil"]
    ELSE [sess |-> [addPath(s, newPath(s.nxtPathID, locAddr, remAddr,
                                       initialRTT(locAddr)))
                        EXCEPT !.nxtPathID = s.nxtPathID + 1],
          pathID |-> s.nxtPathID,
          err |-> IF pingFails THEN "send" ELSE "nil"]

\* pathManager.createPath
createPath(s, locAddr, remAddr, pingFails) ==
    IF \E id \in DOMAIN s.paths :
           s.paths[id].conn = [loc |-> locAddr, rem |-> remAddr]
    THEN [sess |-> s, pathID |-> NoPathID, err |-> "nil"]
    ELSE [sess |-> [addPath(s, newPath(s.nxtPathID, locAddr, remAddr,
                                       initialRTT(locAddr)))
                        EXCEPT !.nxtPathID = s.nxtPathID + 2],
          pathID |-> s.nxtPathID,
          err |-> IF pingFails THEN "send" ELSE "nil"]

\* the two sanity checks on the ID of a path the peer creates
parityError(s, pathID) ==
    IF s.perspective = "client" /\ pathID % 2 # 0
    THEN "server tries to create odd pathID"
    ELSE IF s.perspective = "server" /\ pathID % 2 = 0
    THEN "client tries to create even pathID"
    ELSE "nil"

\* createPathFromRemote without the check that the path does not exist yet
createPathFromRemoteOverwrite(s, pathID, locAddr, remAddr) ==
    IF parityError(s, pathID) # "nil"
    THEN [sess |-> s, pathID |-> NoPathID, err |-> parityError(s, pathID)]
    ELSE [sess |-> addPath(s, newPath(pathID, locAddr, remAddr, initialRTT(remAddr))),
          pathID |-> pathID, err |-> "nil"]

\* pathManager.createPathFromRemote
createPathFromRemote(s, pathID, locAddr, remAddr) ==
    IF pathID \in DOMAIN s.paths
    THEN [sess |-> s, pathID |-> NoPathID,
          err |-> "trying to create already existing path"]
    ELSE IF parityError(s, pathID) # "nil"
    THEN [sess |-> s, pathID |-> NoPathID, err |-> parityError(s, pathID)]
    ELSE [sess |-> addPath(s, newPath(pathID, locAddr, remAddr, initialRTT(remAddr))),
          pathID |-> pathID, err |-> "nil"]

\* pathManager.createPathsFromRemotePathsFrame, from entry i of the frame
RECURSIVE createPathsFromRemotePathsFrame(_, _, _, _)
createPathsFromRemotePathsFrame(s, frame, locAddr, i) ==
    IF i > Len(frame)
    THEN [sess |-> s, pathID |-> NoPathID, err |-> "nil"]
    ELSE IF frame[i].PathID \in DOMAIN s.paths
    THEN createPathsFromRemotePathsFrame(s, frame, locAddr, i + 1)
    ELSE IF parityError(s, frame[i].PathID) # "nil"
    THEN [sess |-> s, pathID |-> NoPathID, err |-> parityError(s, frame[i].PathID)]
    ELSE createPathsFromRemotePathsFrame(
             addPath(s, newPath(frame[i].PathID, locAddr, frame[i].RemoteAddrIP,
                                initialRTT(frame[i].RemoteAddrIP))),
             frame, locAddr, i + 1)

\* findPathLowLatency that prefers a path without a round-trip time sample
pathLoopPreferUnprobed(s, pathID, st) ==
    LET pth == s.paths[pathID]
        currentRTT == pth.smoothedRTT
        quotas == IF currentRTT = 0 /\ pathID \notin DOMAIN st.quotas
                  THEN Put(st.quotas, pathID, 0) ELSE st.quotas
    IN  IF ~ pth.sendingAllowed \/ pth.potentiallyFailed \/ pathID = InitialPathID
        THEN st
        ELSE IF /\ currentRTT = 0 /\ st.selectedPathID # NoPathID
                /\ Get(quotas, pathID) > Get(st.quotas, st.selectedPathID)
        THEN [st EXCEPT !.quotas = quotas]
        ELSE IF /\ currentRTT # 0 /\ st.selectedPathID # NoPathID
                /\ currentRTT >= st.lowerRTT
        THEN st
        ELSE [selectedPathID |-> pathID, lowerRTT |-> currentRTT, quotas |-> quotas]

\* one iteration of the pathLoop of findPathLowLatency, on path pathID; st is
\* selectedPathID (NoPathID while selectedPath is nil), lowerRTT and sch.quotas
pathLoop(s, pathID, st) ==
    LET pth == s.paths[pathID]
        currentRTT == pth.smoothedRTT
        quotas == IF currentRTT = 0 /\ pathID \notin DOMAIN st.quotas
                  THEN Put(st.quotas, pathID, 0) ELSE st.quotas
    IN  IF ~ pth.sendingAllowed \/ pth.potentiallyFailed \/ pathID = InitialPathID
        THEN st
        ELSE IF st.lowerRTT # 0 /\ currentRTT = 0
        THEN st
        ELSE IF /\ currentRTT = 0 /\ st.selectedPathID # NoPathID
                /\ Get(quotas, pathID) > Get(st.quotas, st.selectedPathID)
        THEN [st EXCEPT !.quotas = quotas]
        ELSE IF /\ currentRTT # 0 /\ st.lowerRTT # 0 /\ st.selectedPathID # NoPathID
                /\ currentRTT >= st.lowerRTT
        THEN st
        ELSE [selectedPathID |-> pathID, lowerRTT |-> currentRTT, quotas |-> quotas]

\* range s.paths, in the order of the iteration, from its i-th path
RECURSIVE rangePaths(_, _, _, _)
rangePaths(s, order, i, st) ==
    IF i > Len(order) THEN st
    ELSE TheOne({rangePaths(s, order, i + 1, st1) : st1 \in {pathLoop(s, order[i], st)}})

\* scheduler.findPathLowLatency, the paths map iterated in the given order
findPathLowLatency(s, quotas, order) ==
    IF Cardinality(DOMAIN s.paths) <= 1
    THEN [selectedPathID |-> IF ~ s.paths[InitialPathID].sendingAllowed
                             THEN NoPathID ELSE InitialPathID,
          quotas |-> quotas]
    ELSE LET st == rangePaths(s, order, 1,
                              [selectedPathID |-> NoPathID, lowerRTT |-> 0,
                               quotas |-> quotas])
         IN  [selectedPathID |-> st.selectedPathID, quotas |-> st.quotas]

\* the orders in which a range over a map with the keys S can iterate
Orders(S) ==
    {order \in [1..Cardinality(S) -> S] :
        \A i, j \in 1..Cardinality(S) : i # j => order[i] # order[j]}

\* scheduler.performPacketSending on path pathID: sch.quotas afterwards; sent
\* is whether a packet was packed and sent
performPacketSending(quotas, pathID, sent) ==
    IF sent THEN Put(quotas, pathID, Get(quotas, pathID) + 1) ELSE quotas

NotCalled == [op |-> "none", pathID |-> NoPathID, err |-> "nil"]

(***************************************************************************)
(* The tasks of a session that share sess.paths: the path manager          *)
(* (pathManager.run), the receive loop, the send loop, and one task per    *)
(* path that waits on the path's closeChan.                                *)
(***************************************************************************)
Tasks == {"pm", "rcv", "snd"}

\* the path createPath makes, the path the peer makes, and an unknown path
LocalPathID == 1
RemotePathID == 2
UnknownPathID == 3
PathIDs == {InitialPathID, LocalPathID, RemotePathID}

Idle == [op |-> "none", pc |-> "idle", pthID |-> NoPathID, todo |-> {}, numOfPath |-> 0]

\* sync.RWMutex: the tasks that hold the read lock and the task that holds
\* the write lock
FreeLock == [readers |-> {}, writer |-> "none"]

NoPath == [exists |-> FALSE, open |-> FALSE, closeChan |-> 0, run |-> "none", signals |-> 0]
\* path.setup and go path.run()
NewPath == [exists |-> TRUE, open |-> TRUE, closeChan |-> 0, run |-> "running", signals |-> 0]

\* sess.paths after pathManager.setup
InitialPaths == [id \in PathIDs |-> IF id = InitialPathID THEN NewPath ELSE NoPath]

\* no task of the session runs while the handler or the packer is driven alone
NoTasks ==
    /\ pathsLock = FreeLock
    /\ tasks = [t \in Tasks |-> Idle]
    /\ pths = InitialPaths
    /\ closeChanCap = 1

\* no session is set up while the handler or the packer is driven alone
NoSession ==
    /\ sess = setup("client", "10.0.0.1", "10.0.1.1")
    /\ sch = [quotas |-> EmptyMap]
    /\ called = NotCalled

Call(op, res, missing) ==
    [op |-> op, err |-> res.err,
     rejected |-> (res.err # "nil" /\ res.h = h),
     acked |-> res.acked, missing |-> missing,
     congestionWindow |-> 0, allowed |-> FALSE]

InitHandler ==
    /\ h = NewSentPacketHandler
    /\ stopWaitingManager = NewStopWaitingManager
    /\ swf = NoStopWaitingFrame
    /\ rttStats = [latestRTT |-> 0, smoothedRTT |-> 0, meanDeviation |-> 0]
    /\ now = StartTime
    /\ last = [op |-> "none", err |-> "nil", rejected |-> FALSE,
               acked |-> {}, missing |-> FALSE,
               congestionWindow |-> 0, allowed |-> FALSE]

NotComposed == [op |-> "none", payloadFrames |-> <<>>, err |-> "nil", blocked |-> FALSE]

InitPacker(perspectives) ==
    /\ packer \in {newPacketPacker(perspective) : perspective \in perspectives}
    /\ streamFramer = [cryptoStream |-> FALSE, streamFrames |-> <<>>]
    /\ encLevel = "unencrypted"
    /\ packetNumberGenerator = [pth \in Paths |-> 1]
    /\ packed = [op |-> "none", some |-> FALSE, err |-> "nil"]
    /\ composed = NotComposed

Init == InitHandler /\ InitPacker({"client"}) /\ NoSession /\ NoTasks

\* the numbers of the received packets that carry an ACK or CLOSE_PATH frame
WithPacketNumbers == {1, 2}

SentPackets ==
    {[PacketNumber |-> pn, Length |-> len, Frames |-> fs] :
        pn \in 1..MaxPN, len \in Lengths, fs \in SentFrames}

SentPacket ==
    \E packet \in SentPackets :
        LET res == SentPacketResult(h, rttStats, packet, now)
        IN  /\ ~ last.rejected
            /\ now' = now
            /\ h' = res.h
            /\ rttStats' = res.rttStats
            /\ last' = Call("SentPacket", res, FALSE)
            /\ UNCHANGED <<pvars, svars, wvars, cvars>>

ReceivedAck ==
    \E f \in AckFrames, withPN \in WithPacketNumbers, dt \in {0, TimeStep} :
        LET t == now + dt
            res == ReceivedAckResult(h, rttStats, f, withPN, t)
        IN  /\ ~ last.rejected
            /\ t <= MaxTime
            /\ now' = t
            /\ h' = res.h
            /\ rttStats' = res.rttStats
            /\ last' = Call("ReceivedAck", res, HasMissingRanges(f))
            /\ UNCHANGED <<pvars, svars, wvars, cvars>>

ReceivedClosePath ==
    \E f \in AckFrames, withPN \in WithPacketNumbers :
        LET res == ReceivedClosePathResult(h, rttStats, f, withPN)
        IN  /\ ~ last.rejected
            /\ now' = now
            /\ h' = res.h
            /\ rttStats' = res.rttStats
            /\ last' = Call("ReceivedClosePath", res, HasMissingRanges(f))
            /\ UNCHANGED <<pvars, svars, wvars, cvars>>

\* the timer of the path fires at the alarm time
OnAlarm ==
    \E potentiallyFailed \in BOOLEAN :
        LET t == Max(now, h.alarm)
            res == OnAlarmResult(h, rttStats, potentiallyFailed, t)
        IN  /\ ~ last.rejected
            /\ h.alarm # 0
            /\ t <= MaxTime
            /\ now' = t
            /\ h' = res.h
            /\ rttStats' = res.rttStats
            /\ last' = Call("OnAlarm", res, FALSE)
            /\ UNCHANGED <<pvars, svars, wvars, cvars>>

DequeuePacketForRetransmission ==
    /\ ~ last.rejected
    /\ h.retransmissionQueue # <<>>
    /\ h' = [h EXCEPT !.retransmissionQueue = Tail(h.retransmissionQueue)]
    /\ last' = [op |-> "DequeuePacketForRetransmission", err |-> "nil",
                rejected |-> FALSE, acked |-> {}, missing |-> FALSE,
                congestionWindow |-> 0, allowed |-> FALSE]
    /\ UNCHANGED <<rttStats, now>>
    /\ UNCHANGED <<pvars, svars, wvars, cvars>>

\* the congestion windows the sender of the path can have
CongestionWindows == {1, 3}

\* the scheduler asks whether the path may send
SendingAllowed ==
    \E congestionWindow \in CongestionWindows :
        /\ ~ last.rejected
        /\ last' = [op |-> "SendingAllowed", err |-> "nil", rejected |-> FALSE,
                    acked |-> {}, missing |-> FALSE,
                    congestionWindow |-> congestionWindow,
                    allowed |-> SendingAllowedResult(h, congestionWindow)]
        /\ UNCHANGED <<h, rttStats, now>>
        /\ UNCHANGED <<pvars, svars, wvars, cvars>>

\* the packets sent on another path that the scheduler duplicates on this one;
\* their numbers are the other path's, written above this path's numbers
DuplicatedPackets ==
    {[PacketNumber |-> MaxPN + 1, Length |-> 1, Frames |-> <<StreamFrame(5, 1)>>,
      SendTime |-> StartTime]}

\* the queue holds at most MaxDuplicates duplicated packets at a time
DuplicatePacket ==
    \E packet \in DuplicatedPackets :
        /\ ~ last.rejected
        /\ Cardinality({i \in DOMAIN h.retransmissionQueue :
                            h.retransmissionQueue[i] \in DuplicatedPackets})
               < MaxDuplicates
        /\ h' = DuplicatePacketResult(h, packet)
        /\ last' = [op |-> "DuplicatePacket", err |-> "nil", rejected |-> FALSE,
                    acked |-> {}, missing |-> FALSE,
                    congestionWindow |-> 0, allowed |-> FALSE]
        /\ UNCHANGED <<rttStats, now>>
        /\ UNCHANGED <<pvars, svars, wvars, cvars>>

Next ==
    \/ SentPacket
    \/ ReceivedAck
    \/ ReceivedClosePath
    \/ OnAlarm
    \/ DequeuePacketForRetransmission
    \/ SendingAllowed
    \/ DuplicatePacket

Spec == Init /\ [][Next]_vars

(***************************************************************************)
(* The stopWaitingManager driven on its own: the handler tells it the      *)
(* acknowledged and the retransmitted packet numbers, the scheduler asks   *)
(* it for STOP_WAITING frames.                                             *)
(***************************************************************************)
MaxLeastUnacked == 10

GetStopWaitingFrame ==
    \E force \in BOOLEAN :
        LET res == GetStopWaitingFrameResult(stopWaitingManager, force)
        IN  /\ stopWaitingManager' = res.s
            /\ swf' = [op |-> "GetStopWaitingFrame", force |-> force, frame |-> res.frame]
            /\ UNCHANGED <<hvars, pvars, svars, cvars>>

StopWaitingReceivedAck ==
    \E largestAcked \in 0..(MaxLeastUnacked - 1) :
        /\ stopWaitingManager' = swmReceivedAck(stopWaitingManager,
                                                [LargestAcked |-> largestAcked])
        /\ swf' = [op |-> "ReceivedAck", force |-> FALSE, frame |-> NilFrame]
        /\ UNCHANGED <<hvars, pvars, svars, cvars>>

StopWaitingQueuedRetransmission ==
    \E p \in 1..(MaxLeastUnacked - 1) :
        /\ stopWaitingManager' = QueuedRetransmissionForPacketNumber(stopWaitingManager, p)
        /\ swf' = [op |-> "QueuedRetransmissionForPacketNumber",
                   force |-> FALSE, frame |-> NilFrame]
        /\ UNCHANGED <<hvars, pvars, svars, cvars>>

NextStopWaiting ==
    \/ GetStopWaitingFrame
    \/ StopWaitingReceivedAck
    \/ StopWaitingQueuedRetransmission

SpecStopWaiting == Init /\ [][NextStopWaiting]_vars

(***************************************************************************)
(* The tasks of the session on sess.paths and sess.pathsLock.  A step is   *)
(* one lock operation, one access to the map or one channel operation.     *)
(* A task between the begin and the end of a map access is at pc           *)
(* "writing" or "reading".                                                 *)
(***************************************************************************)
MaxCloseChanCap == 1

InitPaths ==
    /\ InitHandler /\ InitPacker({"client"}) /\ NoSession
    /\ pathsLock = FreeLock
    /\ tasks = [t \in Tasks |-> Idle]
    /\ pths = InitialPaths
    /\ closeChanCap \in 0..MaxCloseChanCap

\* the runtime has stopped the program: concurrent map read and map write
Fatal == \E t \in Tasks : tasks[t].pc = "fatal"

Running(t, pc) == ~ Fatal /\ tasks[t].pc = pc

At(t, op, pc) == [tasks EXCEPT ![t].op = op, ![t].pc = pc]

RLock(t) == [pathsLock EXCEPT !.readers = @ \cup {t}]
RUnlock(t) == [pathsLock EXCEPT !.readers = @ \ {t}]
Lock(t) == [pathsLock EXCEPT !.writer = t]
Unlock == [pathsLock EXCEPT !.writer = "none"]
CanRLock == pathsLock.writer = "none"
CanLock == pathsLock.writer = "none" /\ pathsLock.readers = {}

\* pth.closeChan <- nil can proceed: the buffer has room, or, on an
\* unbuffered channel, the task of the path is waiting to receive
CanSend(id) ==
    IF closeChanCap = 0 THEN pths[id].run = "running"
    ELSE pths[id].closeChan < closeChanCap

\* pth.closeChan <- nil
Send(id) ==
    IF closeChanCap = 0
    THEN [pths EXCEPT ![id].signals = @ + 1, ![id].run = "stopping"]
    ELSE [pths EXCEPT ![id].signals = @ + 1, ![id].closeChan = @ + 1]

\* pathManager.createPath: Lock, then the path is put into sess.paths
CreatePathBegin ==
    /\ Running("pm", "idle")
    /\ ~ pths[LocalPathID].exists
    /\ CanLock
    /\ pathsLock' = Lock("pm")
    /\ tasks' = [At("pm", "createPath", "writing") EXCEPT !["pm"].pthID = LocalPathID]
    /\ UNCHANGED <<pths, closeChanCap, hvars, pvars, svars, wvars>>

\* pathManager.createPathFromRemote: Lock, then the path is put into sess.paths
CreatePathFromRemoteBegin ==
    /\ Running("rcv", "idle")
    /\ ~ pths[RemotePathID].exists
    /\ CanLock
    /\ pathsLock' = Lock("rcv")
    /\ tasks' = [At("rcv", "createPathFromRemote", "writing")
                    EXCEPT !["rcv"].pthID = RemotePathID]
    /\ UNCHANGED <<pths, closeChanCap, hvars, pvars, svars, wvars>>

\* the write to sess.paths is done and the deferred Unlock runs
CreatePathEnd ==
    \E t \in {"pm", "rcv"} :
        /\ Running(t, "writing")
        /\ tasks[t].op \in {"createPath", "createPathFromRemote"}
        /\ pths' = [pths EXCEPT ![tasks[t].pthID] = NewPath]
        /\ pathsLock' = Unlock
        /\ tasks' = [tasks EXCEPT ![t] = Idle]
        /\ UNCHANGED <<closeChanCap, hvars, pvars, svars, wvars>>

\* pathManager.createPathsFromRemotePathsFrame: the path of the frame is put
\* into sess.paths; the function takes no lock
CreatePathsFromRemotePathsFrameBegin ==
    /\ Running("rcv", "idle")
    /\ ~ pths[RemotePathID].exists
    /\ tasks' = [At("rcv", "createPathsFromRemotePathsFrame", "writing")
                    EXCEPT !["rcv"].pthID = RemotePathID]
    /\ UNCHANGED <<pathsLock, pths, closeChanCap, hvars, pvars, svars, wvars>>

CreatePathsFromRemotePathsFrameEnd ==
    /\ Running("rcv", "writing")
    /\ tasks["rcv"].op = "createPathsFromRemotePathsFrame"
    /\ pths' = [pths EXCEPT ![RemotePathID] = NewPath]
    /\ tasks' = [tasks EXCEPT !["rcv"] = Idle]
    /\ UNCHANGED <<pathsLock, closeChanCap, hvars, pvars, svars, wvars>>

\* pathManager.closePath(pthID): RLock
ClosePathRLock ==
    \E pthID \in PathIDs \cup {UnknownPathID} :
        /\ Running("rcv", "idle")
        /\ CanRLock
        /\ pathsLock' = RLock("rcv")
        /\ tasks' = [At("rcv", "closePath", "lookup") EXCEPT !["rcv"].pthID = pthID]
        /\ UNCHANGED <<pths, closeChanCap, hvars, pvars, svars, wvars>>

\* pth, ok := pm.sess.paths[pthID]; if !ok { return nil }; if pth.open.Get()
ClosePathLookup ==
    /\ Running("rcv", "lookup")
    /\ LET pthID == tasks["rcv"].pthID
       IN  tasks' = IF pthID \in PathIDs /\ pths[pthID].exists /\ pths[pthID].open
                    THEN At("rcv", "closePath", "send")
                    ELSE At("rcv", "closePath", "RUnlock")
    /\ UNCHANGED <<pathsLock, pths, closeChanCap, hvars, pvars, svars, wvars>>

\* pth.closeChan <- nil, which waits until the channel takes the value
ClosePathSend ==
    /\ Running("rcv", "send")
    /\ CanSend(tasks["rcv"].pthID)
    /\ pths' = Send(tasks["rcv"].pthID)
    /\ tasks' = At("rcv", "closePath", "RUnlock")
    /\ UNCHANGED <<pathsLock, closeChanCap, hvars, pvars, svars, wvars>>

\* the deferred RUnlock
ClosePathRUnlock ==
    /\ Running("rcv", "RUnlock")
    /\ pathsLock' = RUnlock("rcv")
    /\ tasks' = [tasks EXCEPT !["rcv"] = Idle]
    /\ UNCHANGED <<pths, closeChanCap, hvars, pvars, svars, wvars>>

\* pathManager.closePaths, the last call of pathManager.run: RLock
ClosePathsRLock ==
    /\ Running("pm", "idle")
    /\ CanRLock
    /\ pathsLock' = RLock("pm")
    /\ tasks' = [At("pm", "closePaths", "range")
                    EXCEPT !["pm"].todo = {id \in PathIDs : pths[id].exists}]
    /\ UNCHANGED <<pths, closeChanCap, hvars, pvars, svars, wvars>>

\* one iteration of the range over the paths: the select sends if it can
ClosePathsNext ==
    \E id \in tasks["pm"].todo :
        /\ Running("pm", "range")
        /\ pths' = IF pths[id].open /\ CanSend(id) THEN Send(id) ELSE pths
        /\ tasks' = [tasks EXCEPT !["pm"].todo = @ \ {id}]
        /\ UNCHANGED <<pathsLock, closeChanCap, hvars, pvars, svars, wvars>>

\* RUnlock; pathManager.run returns
ClosePathsRUnlock ==
    /\ Running("pm", "range")
    /\ tasks["pm"].todo = {}
    /\ pathsLock' = RUnlock("pm")
    /\ tasks' = At("pm", "closePaths", "returned")
    /\ UNCHANGED <<pths, closeChanCap, hvars, pvars, svars, wvars>>

\* scheduler.sendPacket: numOfPath := uint32(len(s.paths)) and
\* path = s.paths[pid], with no lock taken
SendPacketReadBegin ==
    /\ Running("snd", "idle")
    /\ tasks' = At("snd", "sendPacket", "reading")
    /\ UNCHANGED <<pathsLock, pths, closeChanCap, hvars, pvars, svars, wvars>>

\* the read of sess.paths returns.  While another task writes the map the
\* read is a data race: it sees the map before or after the write, or the
\* runtime stops the program.
SendPacketReadEnd ==
    /\ Running("snd", "reading")
    /\ LET n == Cardinality({id \in PathIDs : pths[id].exists})
           written == \E t \in Tasks : tasks[t].pc = "writing"
       IN  \/ tasks' = [At("snd", "sendPacket", "selected") EXCEPT !["snd"].numOfPath = n]
           \/ /\ written
              /\ tasks' = [At("snd", "sendPacket", "selected")
                              EXCEPT !["snd"].numOfPath = n + 1]
           \/ /\ written
              /\ tasks' = At("snd", "sendPacket", "fatal")
    /\ UNCHANGED <<pathsLock, pths, closeChanCap, hvars, pvars, svars, wvars>>

\* scheduler.getRetransmissionOfPath: RLock
GetRetransmissionOfPathRLock ==
    /\ Running("snd", "selected")
    /\ CanRLock
    /\ pathsLock' = RLock("snd")
    /\ tasks' = At("snd", "getRetransmissionOfPath", "reading")
    /\ UNCHANGED <<pths, closeChanCap, hvars, pvars, svars, wvars>>

\* scheduler.getRetransmissionOfPath: RUnlock
GetRetransmissionOfPathRUnlock ==
    /\ Running("snd", "reading")
    /\ tasks["snd"].op = "getRetransmissionOfPath"
    /\ pathsLock' = RUnlock("snd")
    /\ tasks' = [tasks EXCEPT !["snd"] = Idle]
    /\ UNCHANGED <<pths, closeChanCap, hvars, pvars, svars, wvars>>

\* the task of a path takes the close signal from its closeChan
PathReceive ==
    \E id \in PathIDs :
        /\ ~ Fatal
        /\ pths[id].run = "running"
        /\ pths[id].closeChan > 0
        /\ pths' = [pths EXCEPT ![id].closeChan = @ - 1, ![id].run = "stopping"]
        /\ UNCHANGED <<pathsLock, tasks, closeChanCap, hvars, pvars, svars, wvars>>

\* the task of a path closes the path: open is false from here on
PathClose ==
    \E id \in PathIDs :
        /\ ~ Fatal
        /\ pths[id].run = "stopping"
        /\ pths' = [pths EXCEPT ![id].open = FALSE, ![id].run = "closed"]
        /\ UNCHANGED <<pathsLock, tasks, closeChanCap, hvars, pvars, svars, wvars>>

NextPaths ==
    \/ CreatePathBegin
    \/ CreatePathFromRemoteBegin
    \/ CreatePathEnd
    \/ CreatePathsFromRemotePathsFrameBegin
    \/ CreatePathsFromRemotePathsFrameEnd
    \/ ClosePathRLock
    \/ ClosePathLookup
    \/ ClosePathSend
    \/ ClosePathRUnlock
    \/ ClosePathsRLock
    \/ ClosePathsNext
    \/ ClosePathsRUnlock
    \/ SendPacketReadBegin
    \/ SendPacketReadEnd
    \/ GetRetransmissionOfPathRLock
    \/ GetRetransmissionOfPathRUnlock
    \/ PathReceive
    \/ PathClose

SpecPaths == InitPaths /\ [][NextPaths]_vars

(***************************************************************************)
(* The life of pathManager.run: the select on runClosed and                *)
(* handshakeCompleted, createPaths, the run loop and closePaths.  sess     *)
(* holds the channels of the path manager and sess.createPaths, called     *)
(* the position of run; closePaths and the tasks of the paths are those of *)
(* SpecPaths.  The session sends on handshakeCompleted and on runClosed    *)
(* once each, in any order and at any time.                                *)
(***************************************************************************)
\* the channels of pathManager.setup are empty; go pm.run()
InitRun ==
    /\ InitHandler /\ InitPacker({"client"})
    /\ pathsLock = FreeLock
    /\ tasks = [t \in Tasks |-> Idle]
    /\ pths = InitialPaths
    /\ closeChanCap \in 0..MaxCloseChanCap
    /\ \E createPaths \in BOOLEAN :
           sess = [runClosed |-> 0, handshakeCompleted |-> 0, changePaths |-> 0,
                   createPaths |-> createPaths,
                   handshakeSent |-> FALSE, closeSent |-> FALSE]
    /\ sch = [quotas |-> EmptyMap]
    /\ called = [op |-> "run", pc |-> "select", received |-> "none", failed |-> FALSE]

RunUnchanged == UNCHANGED <<pathsLock, tasks, closeChanCap, sch, hvars, pvars, wvars>>

\* the session: the handshake has completed
SessionHandshakeCompleted ==
    /\ called.op = "run" /\ ~ sess.handshakeSent
    /\ sess' = [sess EXCEPT !.handshakeCompleted = 1, !.handshakeSent = TRUE]
    /\ UNCHANGED <<called, pths>>
    /\ RunUnchanged

\* the session: the shutdown signal
SessionClose ==
    /\ called.op = "run" /\ ~ sess.closeSent
    /\ sess' = [sess EXCEPT !.runClosed = 1, !.closeSent = TRUE]
    /\ UNCHANGED <<called, pths>>
    /\ RunUnchanged

\* the connection manager: the local addresses have changed
PconnChangePaths ==
    /\ called.op = "run" /\ sess.changePaths = 0
    /\ sess' = [sess EXCEPT !.changePaths = 1]
    /\ UNCHANGED <<called, pths>>
    /\ RunUnchanged

\* the first select of run: case <-pm.runClosed
RunSelectClosed ==
    /\ called.op = "run" /\ called.pc = "select"
    /\ sess.runClosed > 0
    /\ sess' = [sess EXCEPT !.runClosed = 0]
    /\ called' = [called EXCEPT !.pc = "returned", !.received = "select"]
    /\ UNCHANGED pths
    /\ RunUnchanged

\* the first select of run: case <-pm.handshakeCompleted
RunSelectHandshakeCompleted ==
    /\ called.op = "run" /\ called.pc = "select"
    /\ sess.handshakeCompleted > 0
    /\ sess' = [sess EXCEPT !.handshakeCompleted = 0]
    /\ called' = [called EXCEPT !.pc = IF sess.createPaths THEN "createPaths"
                                       ELSE "runLoop"]
    /\ UNCHANGED pths
    /\ RunUnchanged

\* pm.createPaths of a client: the path of a pair of addresses that is not
\* yet a path is created, and sendPing of the new path can fail.  After the
\* handshake an error leads to closePaths; in the run loop it is dropped
RunCreatePaths ==
    /\ called.op = "run" /\ called.pc \in {"createPaths", "changePaths"}
    /\ CanLock
    /\ \E create \in BOOLEAN, err \in BOOLEAN :
        /\ create => ~ pths[LocalPathID].exists
        /\ err => create
        /\ pths' = IF create THEN [pths EXCEPT ![LocalPathID] = NewPath] ELSE pths
        /\ called' = IF called.pc = "createPaths" /\ err
                     THEN [called EXCEPT !.pc = "closePaths", !.failed = TRUE]
                     ELSE [called EXCEPT !.pc = "runLoop"]
    /\ UNCHANGED sess
    /\ RunUnchanged

\* runLoop: case <-pm.runClosed: break runLoop
RunLoopClosed ==
    /\ called.op = "run" /\ called.pc = "runLoop"
    /\ sess.runClosed > 0
    /\ sess' = [sess EXCEPT !.runClosed = 0]
    /\ called' = [called EXCEPT !.pc = "closePaths", !.received = "runLoop"]
    /\ UNCHANGED pths
    /\ RunUnchanged

\* runLoop: case <-pm.pconnMgr.changePaths
RunLoopChangePaths ==
    /\ called.op = "run" /\ called.pc = "runLoop"
    /\ sess.changePaths > 0
    /\ sess' = [sess EXCEPT !.changePaths = 0]
    /\ called' = [called EXCEPT !.pc = IF sess.createPaths THEN "changePaths"
                                       ELSE "runLoop"]
    /\ UNCHANGED pths
    /\ RunUnchanged

\* pm.closePaths() of run, and the return of run after it
RunClosePaths ==
    /\ called.op = "run" /\ called.pc = "closePaths"
    /\ \/ ClosePathsRLock
       \/ ClosePathsNext
       \/ ClosePathsRUnlock

\* the steps of the task of the path manager
run ==
    \/ RunSelectClosed
    \/ RunSelectHandshakeCompleted
    \/ RunCreatePaths
    \/ RunLoopClosed
    \/ RunLoopChangePaths
    \/ RunClosePaths

NextRun ==
    \/ SessionHandshakeCompleted
    \/ SessionClose
    \/ PconnChangePaths
    \/ run
    \/ (called.op = "run" /\ PathReceive)
    \/ (called.op = "run" /\ PathClose)

SpecRun == InitRun /\ [][NextRun]_vars

\* the task of the path manager is scheduled: a step of run that stays
\* possible is eventually taken
SpecRunFair == SpecRun /\ WF_vars(run)

\* run has returned
RunStopped ==
    called.op = "run" /\ (called.pc = "returned" \/ tasks["pm"].pc = "returned")

(***************************************************************************)
(* The sender of a path whose packets are never acknowledged: packets are  *)
(* sent with consecutive numbers, the timer runs OnAlarm and the session   *)
(* takes the queued packets back for retransmission.                       *)
(***************************************************************************)
MaxRTOPackets == 5
MaxAlarmTime == 1100

\* sentPacketHandler.SentPacket with the next packet number of the path
SentNextPacket ==
    \E len \in Lengths, fs \in SentFrames :
        LET packet == [PacketNumber |-> h.lastSentPacketNumber + 1,
                       Length |-> len, Frames |-> fs]
            res == SentPacketResult(h, rttStats, packet, now)
        IN  /\ ~ last.rejected
            /\ h.lastSentPacketNumber < MaxRTOPackets
            /\ now' = now
            /\ h' = res.h
            /\ rttStats' = res.rttStats
            /\ last' = Call("SentPacket", res, FALSE)
            /\ UNCHANGED <<pvars, svars, wvars, cvars>>

\* the timer of the path fires at the alarm time, however late that is
OnAlarmTimer ==
    \E potentiallyFailed \in BOOLEAN :
        LET t == Max(now, h.alarm)
            res == OnAlarmResult(h, rttStats, potentiallyFailed, t)
        IN  /\ ~ last.rejected
            /\ h.alarm # 0
            /\ t <= MaxAlarmTime
            /\ now' = t
            /\ h' = res.h
            /\ rttStats' = res.rttStats
            /\ last' = Call("OnAlarm", res, FALSE)
            /\ UNCHANGED <<pvars, svars, wvars, cvars>>

NextRTO ==
    \/ SentNextPacket
    \/ OnAlarmTimer
    \/ DequeuePacketForRetransmission

SpecRTO == Init /\ [][NextRTO]_vars

(***************************************************************************)
(* The exponential backoff of the retransmission timeout: nothing is ever  *)
(* acknowledged, so every RTO that fires adds one to rtoCount.  The        *)
(* session keeps at most MaxOutstanding packets in the history and takes   *)
(* the queued packets back before the timer runs again.                    *)
(***************************************************************************)
MaxRtoCount == 64
MaxOutstanding == 1

\* the frame lists of the packets that are sent again
RetransmittedFrames == {fs \in SentFrames : stripNonRetransmittableFrames(fs) # <<>>}

\* sentPacketHandler.SentPacket of a packet that is, or stands for, a
\* retransmission
BackoffSentPacket ==
    \E len \in Lengths, fs \in RetransmittedFrames :
        LET packet == [PacketNumber |-> h.lastSentPacketNumber + 1,
                       Length |-> len, Frames |-> fs]
            res == SentPacketResult(h, rttStats, packet, now)
        IN  /\ ~ last.rejected
            /\ Len(h.packetHistory) < MaxOutstanding
            /\ h.retransmissionQueue = <<>>
            /\ now' = now
            /\ h' = res.h
            /\ rttStats' = res.rttStats
            /\ last' = Call("SentPacket", res, FALSE)
            /\ UNCHANGED <<pvars, svars, wvars, cvars>>

\* the timer of the path fires at the alarm time
BackoffOnAlarm ==
    \E potentiallyFailed \in BOOLEAN :
        LET t == Max(now, h.alarm)
            res == OnAlarmResult(h, rttStats, potentiallyFailed, t)
        IN  /\ ~ last.rejected
            /\ h.alarm # 0
            /\ h.retransmissionQueue = <<>>
            /\ h.rtoCount < MaxRtoCount
            /\ now' = t
            /\ h' = res.h
            /\ rttStats' = res.rttStats
            /\ last' = Call("OnAlarm", res, FALSE)
            /\ UNCHANGED <<pvars, svars, wvars, cvars>>

NextBackoff ==
    \/ BackoffSentPacket
    \/ BackoffOnAlarm
    \/ DequeuePacketForRetransmission

SpecBackoff == Init /\ [][NextBackoff]_vars

(***************************************************************************)
(* The state machine of the packer.  The session queues frames, the        *)
(* streams hand data to the framer, the handshake raises the encryption    *)
(* level, and the scheduler calls the entry points of the packer.          *)
(***************************************************************************)
Packed(op, pth, res) ==
    /\ packetNumberGenerator[1] + packetNumberGenerator[2] <= MaxPacketNumber + 2
    /\ Len(res.p.controlFrames) <= MaxControlFrames
    /\ packer' = res.p
    /\ streamFramer' = res.streamFramer
    /\ packetNumberGenerator' = res.packetNumberGenerator
    /\ packed' = [op |-> op, some |-> res.packet.some, err |-> res.err]
    /\ UNCHANGED <<encLevel, composed, hvars, svars, wvars, cvars>>

QueueControlFrame ==
    \E frame \in QueuedFrames, pth \in Paths :
        /\ frame.Type \notin {"stop_waiting", "ack"}
               => Len(packer.controlFrames) < MaxControlFrames
        /\ packer' = QueueControlFrameResult(packer, frame, pth)
        /\ UNCHANGED <<streamFramer, encLevel, packetNumberGenerator, packed, composed, hvars, svars, wvars, cvars>>

\* a stream has data to send
AddStreamFrame ==
    \E f \in StreamFrames :
        /\ Len(streamFramer.streamFrames) < MaxStreamFrames
        /\ streamFramer' = [streamFramer EXCEPT !.streamFrames = Append(@, f)]
        /\ UNCHANGED <<packer, encLevel, packetNumberGenerator, packed, composed, hvars, svars, wvars, cvars>>

\* the crypto stream has data to send
AddCryptoStreamFrame ==
    /\ ~ streamFramer.cryptoStream
    /\ streamFramer' = [streamFramer EXCEPT !.cryptoStream = TRUE]
    /\ UNCHANGED <<packer, encLevel, packetNumberGenerator, packed, composed, hvars, svars, wvars, cvars>>

\* the handshake reaches the next encryption level
HandshakeStep ==
    /\ encLevel # "forward-secure"
    /\ encLevel' = IF encLevel = "unencrypted" THEN "secure" ELSE "forward-secure"
    /\ UNCHANGED <<packer, streamFramer, packetNumberGenerator, packed, composed, hvars, svars, wvars, cvars>>

PackConnectionClose ==
    \E ccf \in ConnectionCloseFrames, pth \in Paths, writeFails \in BOOLEAN :
        Packed("PackConnectionClose", pth,
               PackConnectionCloseResult(packer, streamFramer, packetNumberGenerator,
                                         encLevel, ccf, pth, writeFails))

PackPing ==
    \E pth \in Paths, blocked \in BOOLEAN, writeFails \in BOOLEAN :
        Packed("PackPing", pth,
               PackPingResult(packer, streamFramer, packetNumberGenerator,
                              encLevel, pth, blocked, writeFails))

PackAckPacket ==
    \E pth \in Paths, writeFails \in BOOLEAN :
        Packed("PackAckPacket", pth,
               PackAckPacketResult(packer, streamFramer, packetNumberGenerator,
                                   encLevel, pth, writeFails))

PackHandshakeRetransmission ==
    \E packet \in HandshakePackets, pth \in Paths,
       writeFails \in BOOLEAN :
        Packed("PackHandshakeRetransmission", pth,
               PackHandshakeRetransmissionResult(packer, streamFramer,
                                                 packetNumberGenerator, encLevel,
                                                 packet, pth, writeFails))

PackPacket ==
    \E pth \in Paths, blocked \in BOOLEAN, writeFails \in BOOLEAN :
        Packed("PackPacket", pth,
               PackPacketResult(packer, streamFramer, packetNumberGenerator,
                                encLevel, pth, blocked, writeFails))

PackPacketOfPath ==
    \E pth \in Paths, blocked \in BOOLEAN, writeFails \in BOOLEAN :
        Packed("PackPacketOfPath", pth,
               PackPacketOfPathResult(packer, streamFramer, packetNumberGenerator,
                                      encLevel, pth, blocked, writeFails))

PackPacketOfStream ==
    \E pth \in Paths, streamID \in StreamIDs,
       blocked \in BOOLEAN, writeFails \in BOOLEAN :
        Packed("PackPacketOfStream", pth,
               PackPacketOfStreamResult(packer, streamFramer, packetNumberGenerator,
                                        encLevel, pth, streamID, blocked, writeFails))

NextPacker ==
    \/ QueueControlFrame
    \/ AddStreamFrame
    \/ AddCryptoStreamFrame
    \/ HandshakeStep
    \/ PackConnectionClose
    \/ PackPing
    \/ PackAckPacket
    \/ PackHandshakeRetransmission
    \/ PackPacket
    \/ PackPacketOfPath
    \/ PackPacketOfStream

\* the packer of a client or of a server
InitEitherPerspective == InitHandler /\ InitPacker(Perspectives) /\ NoSession /\ NoTasks

SpecPacker == InitEitherPerspective /\ [][NextPacker]_vars

(***************************************************************************)
(* composeNextPacket, composeNextPacketOfPath and composeNextPacketOfStream *)
(* as functions of what is queued: the packer and the framer start with    *)
(* any queues the session can have built, and the three functions are      *)
(* applied to them with every size and path.                               *)
(***************************************************************************)
SeqsUpTo(S, n) == UNION {[1..k -> S] : k \in 0..n}

\* the sizes composeNextPacket is given: room for two frames, and room for a
\* STOP_WAITING, an ACK and two stream frames with their data length
MaxFrameSizes == {2, 6}

\* stream frames as they are queued: a frame queued for retransmission that
\* was the last of its packet has lost its data length
QueuedStreamFrames ==
    {[f EXCEPT !.DataLenPresent = b] : f \in StreamFrames, b \in BOOLEAN}

ControlFrames == {Frame("window_update"), Frame("ping"), Frame("blocked")}

InitCompose ==
    /\ InitHandler
    /\ packer \in {[controlFrames |-> cf, stopWaiting |-> sw, ackFrame |-> ack,
                    perspective |-> "client"] :
                       cf \in SeqsUpTo(ControlFrames, MaxQueuedControlFrames),
                       sw \in [Paths -> BOOLEAN], ack \in [Paths -> BOOLEAN]}
    /\ streamFramer \in {[cryptoStream |-> FALSE, streamFrames |-> q] :
                             q \in SeqsUpTo(QueuedStreamFrames, MaxQueuedStreamFrames)}
    /\ encLevel = "forward-secure"
    /\ packetNumberGenerator = [pth \in Paths |-> 1]
    /\ packed = [op |-> "none", some |-> FALSE, err |-> "nil"]
    /\ composed = NotComposed
    /\ NoSession
    /\ NoTasks

Composed(op, blocked, c) ==
    /\ Len(c.p.controlFrames) <= MaxQueuedControlFrames
    /\ packer' = c.p
    /\ streamFramer' = c.streamFramer
    /\ composed' = [op |-> op, payloadFrames |-> c.payloadFrames, err |-> c.err,
                    blocked |-> blocked]
    /\ UNCHANGED <<encLevel, packetNumberGenerator, packed, hvars, svars, wvars, cvars>>

ComposeNextPacket ==
    \E pth \in Paths, maxFrameSize \in MaxFrameSizes,
       canSendStreamFrames \in BOOLEAN, blocked \in BOOLEAN :
        Composed("composeNextPacket", blocked /\ canSendStreamFrames,
                 composeNextPacket(packer, streamFramer, maxFrameSize,
                                   canSendStreamFrames, pth, AllStreams, blocked))

ComposeNextPacketOfPath ==
    \E pth \in Paths, maxFrameSize \in MaxFrameSizes,
       canSendStreamFrames \in BOOLEAN, blocked \in BOOLEAN :
        Composed("composeNextPacketOfPath", blocked /\ canSendStreamFrames,
                 composeNextPacket(packer, streamFramer, maxFrameSize,
                                   canSendStreamFrames, pth, OfPath(pth), blocked))

ComposeNextPacketOfStream ==
    \E pth \in Paths, streamID \in StreamIDs, maxFrameSize \in MaxFrameSizes,
       canSendStreamFrames \in BOOLEAN, blocked \in BOOLEAN :
        Composed("composeNextPacketOfStream", blocked /\ canSendStreamFrames,
                 composeNextPacket(packer, streamFramer, maxFrameSize,
                                   canSendStreamFrames, pth, OfOneStream(streamID),
                                   blocked))

NextCompose ==
    \/ ComposeNextPacket
    \/ ComposeNextPacketOfPath
    \/ ComposeNextPacketOfStream

SpecCompose == InitCompose /\ [][NextCompose]_vars

(***************************************************************************)
(* The path manager: the paths of a session, from pathManager.setup.       *)
(***************************************************************************)
InitPathManager ==
    /\ InitHandler
    /\ NoTasks
    /\ InitPacker(Perspectives)
    /\ sess = setup(packer.perspective, "10.0.0.1", "10.0.1.1")
    /\ sch = [quotas |-> EmptyMap]
    /\ called = NotCalled

PathManagerCalled(op, res) ==
    /\ sess' = res.sess
    /\ called' = [op |-> op, pathID |-> res.pathID, err |-> res.err]
    /\ UNCHANGED <<sch, hvars, pvars, wvars, cvars>>

\* createPaths calls createPath on a pair of addresses; a server returns
\* before it creates a path
CreatePath ==
    \E locAddr \in LocalAddrs, remAddr \in RemoteAddrs, pingFails \in BOOLEAN :
        /\ sess.perspective = "client"
        /\ sess.nxtPathID <= MaxPathID
        /\ PathManagerCalled("createPath",
                             createPath(sess, locAddr, remAddr, pingFails))

\* a packet arrives with a path ID that the session does not route yet
CreatePathFromRemote ==
    \E pathID \in 0..MaxPathID, locAddr \in LocalAddrs, remAddr \in RemoteAddrs :
        PathManagerCalled("createPathFromRemote",
                          createPathFromRemote(sess, pathID, locAddr, remAddr))

PathsFrames ==
    SeqsUpTo({[PathID |-> pathID, RemoteAddrIP |-> remAddr] :
                 pathID \in 0..MaxPathID, remAddr \in RemoteAddrs},
             MaxPathsFrameLen)

CreatePathsFromRemotePathsFrame ==
    \E frame \in PathsFrames, locAddr \in LocalAddrs :
        PathManagerCalled("createPathsFromRemotePathsFrame",
                          createPathsFromRemotePathsFrame(sess, frame, locAddr, 1))

NextPathManager ==
    \/ CreatePath
    \/ CreatePathFromRemote
    \/ CreatePathsFromRemotePathsFrame

SpecPathManager == InitPathManager /\ [][NextPathManager]_vars

(***************************************************************************)
(* The scheduler's choice of a path, on any paths a client's session can   *)
(* have: a path is created with any ID above 0, its round-trip time,       *)
(* SendingAllowed() and potentiallyFailed change as packets are sent and   *)
(* acknowledged.                                                           *)
(***************************************************************************)
RTTs == {0, 1, 2}

\* the paths of a session with the initial path and the paths ids
PathsOf(ids) ==
    {[pathID \in ids \cup {InitialPathID} |->
          IF pathID = InitialPathID
          THEN [newPath(pathID, "10.0.0.1", "10.0.1.1", 0)
                    EXCEPT !.sendingAllowed = a0]
          ELSE [newPath(pathID, "10.0.0.2",
                        IF pathID = 1 THEN "10.0.1.1" ELSE "10.0.2.1",
                        a[pathID].rtt)
                    EXCEPT !.sendingAllowed = a[pathID].sendingAllowed,
                           !.potentiallyFailed = a[pathID].potentiallyFailed]] :
        a0 \in BOOLEAN,
        a \in [ids -> [rtt : RTTs, sendingAllowed : BOOLEAN,
                       potentiallyFailed : BOOLEAN]]}

\* the path IDs in the order of their creation
RECURSIVE UpTo(_)
UpTo(ids) ==
    IF ids = {} THEN <<>>
    ELSE LET m == CHOOSE x \in ids : \A y \in ids : y <= x
         IN  Append(UpTo(ids \ {m}), m)

\* the sets of path IDs of a client: its own paths have the IDs 1, 3, ...
\* without a gap
PathIDSets ==
    {ids \in SUBSET (1..MaxSchedPathID) :
        \A pathID \in ids : (pathID % 2 = 1 /\ pathID > 1) => pathID - 2 \in ids}

Sessions ==
    {[perspective |-> "client",
      nxtPathID |-> 1 + 2 * Cardinality({pathID \in DOMAIN paths : pathID % 2 = 1}),
      paths |-> paths, openPaths |-> UpTo(DOMAIN paths)] :
        paths \in UNION {PathsOf(ids) : ids \in PathIDSets}}

\* sch.quotas: a count for some of the paths
Quotas(ids) ==
    UNION {[have -> 0..MaxInitQuota] : have \in SUBSET ids}

InitScheduler ==
    /\ InitHandler
    /\ NoTasks
    /\ InitPacker({"client"})
    /\ sess \in Sessions
    /\ sch \in {[quotas |-> quotas] : quotas \in Quotas(DOMAIN sess.paths \ {InitialPathID})}
    /\ called = NotCalled

FindPathLowLatency ==
    \E order \in Orders(DOMAIN sess.paths) :
        LET res == findPathLowLatency(sess, sch.quotas, order)
        IN  /\ sch' = [quotas |-> res.quotas]
            /\ called' = [op |-> "findPathLowLatency",
                          pathID |-> res.selectedPathID, err |-> "nil"]
            /\ UNCHANGED <<sess, hvars, pvars, wvars, cvars>>

\* the scheduler sends on the path it has selected; the packet sent can
\* make the path congestion-limited
PerformPacketSending ==
    \E sent \in BOOLEAN, limited \in BOOLEAN :
        /\ called.op = "findPathLowLatency"
        /\ called.pathID # NoPathID
        /\ Get(sch.quotas, called.pathID) < MaxQuota
        /\ sch' = [quotas |-> performPacketSending(sch.quotas, called.pathID, sent)]
        /\ sess' = [sess EXCEPT !.paths[called.pathID].sendingAllowed =
                                    @ /\ ~ (sent /\ limited)]
        /\ called' = [op |-> "performPacketSending", pathID |-> called.pathID,
                      err |-> IF sent THEN "nil" ELSE "not sent"]
        /\ UNCHANGED <<hvars, pvars, wvars, cvars>>

NextScheduler ==
    \/ FindPathLowLatency
    \/ PerformPacketSending

SpecScheduler == InitScheduler /\ [][NextScheduler]_vars

(***************************************************************************)
(* The assignment of streams to paths.  choosePaths computes in float64;   *)
(* a float64 is modelled as the rational <<n, d>> it stands for (d > 0, in *)
(* lowest terms), so the rounding of a quotient that float64 cannot hold   *)
(* is not modelled.  The units are chosen so that the inputs are whole     *)
(* numbers: a bandwidth is what GetBandwidth() returns (Mbps), a           *)
(* smoothedRTT is counted in units of 1953125 ns (2^-9 s), which makes the *)
(* one-way delay SmoothedRTT().Seconds() / 2 a count of 2^-10 s, and a     *)
(* stream size and a volume are counted in units of 128 bytes (2^20 bit/s  *)
(* times 2^-10 s).  Weights are at least 1.                                *)
(***************************************************************************)
RECURSIVE GCD(_, _)
GCD(a, b) == IF b = 0 THEN a ELSE GCD(b, a % b)

Rat(n, d) == LET g == GCD(Abs(n), d) IN <<n \div g, d \div g>>
Float64(n) == <<n, 1>>
FAdd(x, y) == Rat(x[1] * y[2] + y[1] * x[2], x[2] * y[2])
FSub(x, y) == Rat(x[1] * y[2] - y[1] * x[2], x[2] * y[2])
FMul(x, y) == Rat(x[1] * y[1], x[2] * y[2])
\* x / y for y > 0
FDiv(x, y) == Rat(x[1] * y[2], x[2] * y[1])
FLess(x, y) == x[1] * y[2] < y[1] * x[2]

RECURSIVE FSum(_, _)
FSum(f, S) ==
    IF S = {} THEN Float64(0)
    ELSE LET k == CHOOSE x \in S : TRUE IN FAdd(f[k], FSum(f, S \ {k}))

\* the paths choosePaths keeps after "filter unavailable paths"
avalPaths(s) ==
    {pathID \in DOMAIN s.paths :
        /\ s.paths[pathID].sendingAllowed
        /\ ~ s.paths[pathID].potentiallyFailed
        /\ pathID # InitialPathID}

\* the weights of the streams already scheduled on the path, streams 1 and 3
\* left out
RECURSIVE prioritySum(_, _)
prioritySum(s, streamIDs) ==
    IF streamIDs = <<>> THEN 0
    ELSE (IF Head(streamIDs) \in {1, 3} THEN 0 ELSE s.streams[Head(streamIDs)].weight)
         + prioritySum(s, Tail(streamIDs))

\* pathsBdw[pth.pathID], in units of 2^20 bit/s
pathsBdw(s, priority, pathID) ==
    LET pth == s.paths[pathID]
    IN  FMul(FDiv(Float64(priority),
                  Float64(priority + prioritySum(s, pth.streamIDs))),
             Float64(pth.bandwidth))

\* pathsOwd[pth.pathID], in units of 2^-10 s
pathsOwd(s, pathID) == Float64(s.paths[pathID].smoothedRTT)

\* the sequences that hold every element of S once
RECURSIVE SequencesOf(_)
SequencesOf(S) ==
    IF S = {} THEN {<<>>}
    ELSE UNION {{<<x>> \o rest : rest \in SequencesOf(S \ {x})} : x \in S}

\* the results sort.Slice can give for the candidates: ascending one-way delay
SortedPathsBdw(s) ==
    {sorted \in SequencesOf(avalPaths(s)) :
        \A i \in 1..(Len(sorted) - 1) :
            ~ FLess(pathsOwd(s, sorted[i + 1]), pathsOwd(s, sorted[i]))}

\* Step 2, volume > gap: the loop "for k >= 0" that gives owdGap * pathsBdw to
\* the paths sorted[k], ..., sorted[1]
RECURSIVE closeGap(_, _, _, _, _)
closeGap(bdw, sorted, owdGap, k, st) ==
    IF k < 1 THEN st
    ELSE LET proportionStep == FMul(owdGap, bdw[sorted[k]])
         IN  TheOne({IF ~ FLess(Float64(0), st1.volume) THEN st1
                     ELSE closeGap(bdw, sorted, owdGap, k - 1, st1) :
                     st1 \in {[volume |-> FSub(st.volume, proportionStep),
                               pathsVolume |-> [st.pathsVolume EXCEPT
                                                   ![sorted[k]] =
                                                       FAdd(@, proportionStep)]]}})

\* Step 2, volume <= gap: the volume is cut over sorted[1], ..., sorted[i]
cutVolume(bdw, sorted, bdwSum, i, st) ==
    LET share(pathID) == FDiv(FMul(st.volume, bdw[pathID]), bdwSum)
        head == {sorted[k] : k \in 1..i}
        given == [pathID \in head |-> share(pathID)]
    IN  [volume |-> FSub(st.volume, FSum(given, head)),
         pathsVolume |-> [pathID \in DOMAIN st.pathsVolume |->
                             IF pathID \in head
                             THEN FAdd(st.pathsVolume[pathID], given[pathID])
                             ELSE st.pathsVolume[pathID]]]

\* Step 2: the loop over i, from the pair sorted[i], sorted[i + 1] on
RECURSIVE closeGaps(_, _, _, _, _)
closeGaps(bdw, owd, sorted, i, st) ==
    IF i > Len(sorted) - 1 THEN st
    ELSE LET bdwSum == FSum(bdw, {sorted[k] : k \in 1..i})
             owdGap == FSub(owd[sorted[i + 1]], owd[sorted[i]])
             gap == FMul(owdGap, bdwSum)
         IN  IF owdGap = Float64(0) THEN st
             ELSE IF FLess(gap, st.volume)
             THEN TheOne({closeGaps(bdw, owd, sorted, i + 1, st1) :
                          st1 \in {closeGap(bdw, sorted, owdGap, i, st)}})
             ELSE TheOne({IF ~ FLess(Float64(0), st1.volume) THEN st1
                          ELSE closeGaps(bdw, owd, sorted, i + 1, st1) :
                          st1 \in {cutVolume(bdw, sorted, bdwSum, i, st)}})

\* Step 3 with the rest given to all candidates in equal parts
restShareEqually(bdw, st) ==
    IF ~ FLess(Float64(0), st.volume) \/ DOMAIN bdw = {} THEN st.pathsVolume
    ELSE [pathID \in DOMAIN bdw |->
             FAdd(st.pathsVolume[pathID],
                  FDiv(st.volume, Float64(Cardinality(DOMAIN bdw))))]

\* Step 3: the rest is given to all candidates by their share.  With no
\* bandwidth at all the shares are 0 / 0, not a number, and no volume is > 0.
restShare(bdw, st) ==
    LET all == FSum(bdw, DOMAIN bdw)
    IN  IF ~ FLess(Float64(0), st.volume) THEN st.pathsVolume
        ELSE IF all = Float64(0) THEN [pathID \in DOMAIN bdw |-> Float64(0)]
        ELSE [pathID \in DOMAIN bdw |->
                 FAdd(st.pathsVolume[pathID],
                      FDiv(FMul(st.volume, bdw[pathID]), all))]

\* scheduler.choosePaths for the stream strID; sorted is what sort.Slice made
\* of the candidates.  The result is the stream, whose size can have been
\* detected, and selectedPaths as a map from path IDs to volumes.
choosePaths(s, strID, priority, sorted) ==
    LET stream0 == s.streams[strID]
        stream == IF stream0.checksize THEN stream0
                  ELSE [stream0 EXCEPT !.size = stream0.dataForWriting,
                                       !.checksize = stream0.dataForWriting # 0]
        st0 == [volume |-> Float64(stream.size),
                pathsVolume |-> [pathID \in avalPaths(s) |-> Float64(0)]]
    IN  IF ~ stream.checksize
        THEN [stream |-> stream, selectedPaths |-> EmptyMap]
        ELSE IF Cardinality(DOMAIN s.paths) <= 1
        THEN [stream |-> stream,
              selectedPaths |-> IF ~ s.paths[InitialPathID].sendingAllowed THEN EmptyMap
                                ELSE [pathID \in {InitialPathID} |-> Float64(stream.size)]]
        ELSE TheOne(
                 {TheOne({[stream |-> stream,
                           selectedPaths |->
                               [pathID \in {x \in avalPaths(s) :
                                               FLess(Float64(0), pathsVolume[x])} |->
                                   pathsVolume[pathID]]] :
                          pathsVolume \in
                              {restShare(bdw, closeGaps(bdw, owd, sorted, 1, st0))}}) :
                  bdw \in {[pathID \in avalPaths(s) |-> pathsBdw(s, priority, pathID)]},
                  owd \in {[pathID \in avalPaths(s) |-> pathsOwd(s, pathID)]}})

\* s.streamToPath.Add(streamID, pathID): the paths of the stream, in the
\* order in which they were added
streamToPathAdd(m, streamID, pathID) ==
    Put(m, streamID, IF streamID \in DOMAIN m THEN Append(m[streamID], pathID)
                     ELSE <<pathID>>)

\* the stream is given to the path with the volume vol; toQuota is whether
\* sch.numstreams[pathID]++ is run
assignTo(st, strID, pathID, vol, toQuota) ==
    [st EXCEPT
        !.s.streamToPath = streamToPathAdd(st.s.streamToPath, strID, pathID),
        !.s.streams[strID].pathVolume = Put(st.s.streams[strID].pathVolume, pathID, vol),
        !.s.paths[pathID].streamIDs = Append(st.s.paths[pathID].streamIDs, strID),
        !.sch.numstreams = IF toQuota
                           THEN Put(st.sch.numstreams, pathID,
                                    Get(st.sch.numstreams, pathID) + 1)
                           ELSE st.sch.numstreams]

\* "for pth, vol := range selectedPths"
RECURSIVE assignSelected(_, _, _)
assignSelected(st, strID, selectedPths) ==
    IF DOMAIN selectedPths = {} THEN st
    ELSE LET pathID == CHOOSE x \in DOMAIN selectedPths : TRUE
             rest == [x \in DOMAIN selectedPths \ {pathID} |-> selectedPths[x]]
         IN  TheOne({assignSelected(st1, strID, rest) :
                     st1 \in {assignTo(st, strID, pathID, selectedPths[pathID], TRUE)}})

\* assignLowLatency that counts every stream in sch.numstreams
assignLowLatencyCounted(st, strID, order, toQuota) ==
    TheOne({LET st1 == [st EXCEPT !.sch.quotas = res.quotas]
            IN  IF res.selectedPathID = NoPathID
                THEN [st1 EXCEPT !.cont = FALSE, !.acked = TRUE]
                ELSE assignTo(st1, strID, res.selectedPathID, Float64(0), TRUE) :
            res \in {findPathLowLatency(st.s, st.sch.quotas, order)}})

\* the stream goes to the path of findPathLowLatency; without a path
\* ackRemainingPaths is run and the iteration ends
assignLowLatency(st, strID, order, toQuota) ==
    TheOne({LET st1 == [st EXCEPT !.sch.quotas = res.quotas]
            IN  IF res.selectedPathID = NoPathID
                THEN [st1 EXCEPT !.cont = FALSE, !.acked = TRUE]
                ELSE assignTo(st1, strID, res.selectedPathID, Float64(0), toQuota) :
            res \in {findPathLowLatency(st.s, st.sch.quotas, order)}})

\* the closure assignPath of scheduleToMultiplePaths, on the stream strID;
\* st holds the session, the scheduler, whether the iteration goes on and
\* whether ackRemainingPaths was run
assignPath(st, strID, order, sorted) ==
    IF strID \in DOMAIN st.s.streamToPath THEN st
    ELSE IF st.s.perspective = "client"
    THEN assignLowLatency(st, strID, order, strID \notin {1, 3})
    ELSE IF strID \in {1, 3}
    THEN assignLowLatency(st, strID, order, FALSE)
    ELSE IF Cardinality(DOMAIN st.s.paths) < 3 THEN st
    ELSE TheOne({LET st1 == [st EXCEPT !.s.streams[strID] = res.stream]
                 IN  IF DOMAIN res.selectedPaths = {}
                     THEN IF res.stream.checksize
                          THEN [st1 EXCEPT !.cont = FALSE, !.acked = TRUE]
                          ELSE st1
                     ELSE assignSelected(st1, strID, res.selectedPaths) :
                 res \in {choosePaths(st.s, strID, st.s.streams[strID].weight,
                                      sorted)}})

\* streamsMap.RoundRobinIterateSchedule(assignPath) over the streams ids, which
\* sortStreamPriorityOrder has put in order
RECURSIVE RoundRobinIterateSchedule(_, _, _, _)
RoundRobinIterateSchedule(st, ids, order, sorted) ==
    IF ids = <<>> THEN st
    ELSE TheOne({IF ~ st1.cont THEN st1
                 ELSE RoundRobinIterateSchedule(st1, Tail(ids), order, sorted) :
                 st1 \in {assignPath(st, Head(ids), order, sorted)}})

\* the orders in which "range s.paths" is taken to run: the paths that the
\* loops of findPathLowLatency and choosePaths skip come last, in one order,
\* since their place changes nothing
PathOrders(s) ==
    LET skipped == CHOOSE rest \in SequencesOf(DOMAIN s.paths \ avalPaths(s)) : TRUE
    IN  {first \o skipped : first \in SequencesOf(avalPaths(s))}

\* the orders sortStreamPriorityOrder can give: streams 1 and 3 first, the
\* other streams by descending weight
StreamOrders(s) ==
    {ids \in SequencesOf(DOMAIN s.streams) :
        \A i, j \in 1..Len(ids) :
            i < j => /\ ids[j] \in {1, 3} => ids[i] \in {1, 3}
                     /\ ids[i] \notin {1, 3} =>
                            s.streams[ids[i]].weight >= s.streams[ids[j]].weight}

\* scheduler.scheduleToMultiplePaths: ids is the order of the streams, order
\* the order in which s.paths is ranged over and sorted the result of
\* sort.Slice in choosePaths
scheduleToMultiplePaths(s, sc, ids, order, sorted) ==
    TheOne({RoundRobinIterateSchedule(st, ids, order, sorted) :
            st \in {[s |-> s, sch |-> sc, cont |-> TRUE, acked |-> FALSE]}})

\* the greatest path ID of the sessions whose streams are assigned
MaxAssignPathID == 3
\* the streams the application opens besides the crypto stream 1 and the
\* header stream 3, their weights and the data written to them
DataStreamIDs == {5, 7}
Weights == {1, 3}
StreamSizes == {3, 8}

\* what the path pathID can be when it is created: its bandwidth, its
\* round-trip time (0 before the first sample) and whether it can be sent on
PathKinds(pathID) ==
    IF pathID = 1
    THEN {[bandwidth |-> 3, smoothedRTT |-> 1, sendingAllowed |-> TRUE, potentiallyFailed |-> FALSE],
          [bandwidth |-> 1, smoothedRTT |-> 1, sendingAllowed |-> FALSE, potentiallyFailed |-> FALSE]}
    ELSE IF pathID = 2
    THEN {[bandwidth |-> 1, smoothedRTT |-> 2, sendingAllowed |-> TRUE, potentiallyFailed |-> FALSE],
          [bandwidth |-> 1, smoothedRTT |-> 1, sendingAllowed |-> TRUE, potentiallyFailed |-> TRUE]}
    ELSE {[bandwidth |-> 1, smoothedRTT |-> 0, sendingAllowed |-> TRUE, potentiallyFailed |-> FALSE],
          [bandwidth |-> 0, smoothedRTT |-> 2, sendingAllowed |-> TRUE, potentiallyFailed |-> FALSE]}

pathOfKind(pathID, kind) ==
    [pathID |-> pathID, bandwidth |-> kind.bandwidth, smoothedRTT |-> kind.smoothedRTT,
     sendingAllowed |-> kind.sendingAllowed, potentiallyFailed |-> kind.potentiallyFailed,
     streamIDs |-> <<>>]

newStream(streamID, weight) ==
    [streamID |-> streamID, weight |-> weight, dataForWriting |-> 0,
     size |-> 0, checksize |-> FALSE, pathVolume |-> EmptyMap]

NotScheduled == [op |-> "none", cont |-> TRUE, acked |-> FALSE]

\* a session after the handshake: the initial path, streams 1 and 3
InitAssign ==
    /\ InitHandler
    /\ NoTasks
    /\ InitPacker({"client"})
    /\ \E perspective \in Perspectives :
           sess = [perspective |-> perspective,
                   paths |-> Put(EmptyMap, InitialPathID,
                                 pathOfKind(InitialPathID,
                                            [bandwidth |-> 1, smoothedRTT |-> 1,
                                             sendingAllowed |-> TRUE,
                                             potentiallyFailed |-> FALSE])),
                   streams |-> Put(Put(EmptyMap, 1, newStream(1, 1)), 3, newStream(3, 1)),
                   streamToPath |-> EmptyMap]
    /\ sch = [quotas |-> EmptyMap, numstreams |-> EmptyMap]
    /\ called = NotScheduled

\* the path manager adds a path to the session
AssignCreatePath ==
    LET pathID == Cardinality(DOMAIN sess.paths)
    IN  \E kind \in PathKinds(pathID) :
            /\ pathID <= MaxAssignPathID
            /\ sess' = [sess EXCEPT !.paths = Put(sess.paths, pathID,
                                                  pathOfKind(pathID, kind))]
            /\ UNCHANGED <<sch, called, hvars, pvars, wvars, cvars>>

\* the application opens a stream
AssignOpenStream ==
    \E streamID \in DataStreamIDs \ DOMAIN sess.streams, weight \in Weights :
        /\ sess' = [sess EXCEPT !.streams = Put(sess.streams, streamID,
                                                newStream(streamID, weight))]
        /\ UNCHANGED <<sch, called, hvars, pvars, wvars, cvars>>

\* the application writes to a stream that has no data queued
AssignWrite ==
    \E streamID \in DataStreamIDs \cap DOMAIN sess.streams, n \in StreamSizes :
        /\ sess.streams[streamID].dataForWriting = 0
        /\ sess' = [sess EXCEPT !.streams[streamID].dataForWriting = n]
        /\ UNCHANGED <<sch, called, hvars, pvars, wvars, cvars>>

\* a tick of the scheduler
ScheduleToMultiplePaths ==
    \E ids \in StreamOrders(sess), order \in PathOrders(sess),
       sorted \in SortedPathsBdw(sess) :
        \E res \in {scheduleToMultiplePaths(sess, sch, ids, order, sorted)} :
            /\ sess' = res.s
            /\ sch' = res.sch
            /\ called' = [op |-> "scheduleToMultiplePaths", cont |-> res.cont,
                          acked |-> res.acked]
            /\ UNCHANGED <<hvars, pvars, wvars, cvars>>

NextAssign ==
    \/ AssignCreatePath
    \/ AssignOpenStream
    \/ AssignWrite
    \/ ScheduleToMultiplePaths

SpecAssign == InitAssign /\ [][NextAssign]_vars

(***************************************************************************)
(* The send tick: scheduler.sendPacket of a session of the initial path    *)
(* and the paths 1 and 2, a loop iteration at a time.  The tick runs       *)
(* alone: no packet arrives, no alarm fires and no path is created while   *)
(* it runs.  called holds the locals of sendPacket; sess.paths holds, per  *)
(* path, its streamIDs, its sentPacketHandler, its stopWaitingManager, its *)
(* congestion window and whether its receivedPacketHandler has an ACK      *)
(* frame to hand over.  The initial path has served the handshake and      *)
(* carries no stream.                                                      *)
(***************************************************************************)
MaxTickStreamFrames == 2
MaxRounds == 2

\* the stream frame of a packet dequeued for retransmission, in the framer
Retransmitted(f) ==
    [Type |-> f.Type, StreamID |-> f.StreamID, PathID |-> f.PathID,
     DataLenPresent |-> f.DataLenPresent, ReasonPhrase |-> f.ReasonPhrase,
     Retransmission |-> TRUE]
IsRetransmission(f) == "Retransmission" \in DOMAIN f

\* streamFramer.AddFrameForRetransmission: retransmissions are popped before
\* the data of the streams
AddFrameForRetransmission(sf, f) ==
    [sf EXCEPT !.streamFrames =
        SelectSeq(sf.streamFrames, IsRetransmission) \o <<Retransmitted(f)>>
        \o SelectSeq(sf.streamFrames, LAMBDA g : ~ IsRetransmission(g))]

HasFramesForRetransmission(sf) ==
    \E k \in 1..Len(sf.streamFrames) : IsRetransmission(sf.streamFrames[k])

\* the packet numbers the generator of a path hands out, from the first on
RECURSIVE PoppedTimes(_, _, _)
PoppedTimes(gen, pth, n) ==
    IF n = 0 THEN gen ELSE PoppedTimes(Pop(gen, pth), pth, n - 1)
NthPacketNumber(pth, n) == Peek(PoppedTimes([q \in Paths |-> 1], pth, n - 1), pth)

\* a packet of the retransmission queue
QueuedPacket(number, frames, level) ==
    [PacketNumber |-> number, Length |-> WrittenLength(frames), Frames |-> frames,
     SendTime |-> 0, EncryptionLevel |-> level]

\* a path whose packets so far have all been queued for retransmission
tickPath(pathID, streamIDs, queue, congestionWindow, ack) ==
    LET lastSent == IF queue = <<>> THEN 0 ELSE queue[Len(queue)].PacketNumber
        leastUnacked == IF queue = <<>> THEN 0 ELSE lastSent + 1
    IN  [pathID |-> pathID,
         streamIDs |-> streamIDs,
         leastUnacked |-> 0,
         sentPacketHandler |->
             [NewSentPacketHandler EXCEPT !.retransmissionQueue = queue,
                                          !.lastSentPacketNumber = lastSent,
                                          !.LargestAcked = 0,
                                          !.nextLeastUnacked = leastUnacked],
         stopWaitingManager |->
             [NewStopWaitingManager EXCEPT !.nextLeastUnacked = leastUnacked],
         congestionWindow |-> congestionWindow,
         ack |-> ack]

RECURSIVE Repeat(_, _)
Repeat(f, n) == IF n = 0 THEN <<>> ELSE <<f>> \o Repeat(f, n - 1)

\* the locals of sendPacket before its first statement
TickStart(windowUpdateFrames) ==
    [op |-> "sendPacket", pc |-> "start", err |-> "nil",
     windowUpdateFrames |-> windowUpdateFrames,
     numOfPath |-> 0, startIndex |-> 0, i |-> 0, pid |-> 0, streamNum |-> 0,
     hasWindows |-> FALSE, pathsent |-> FALSE,
     hasRetransmission |-> FALSE, retransmitHandshakePacket |-> <<>>,
     rounds |-> 0, sentInRound |-> FALSE,
     queuedAtCall |-> 0, dequeued |-> 0, iterations |-> 0]

\* the state of path 1 when the tick starts: with stream data and window,
\* with a retransmission, data of two streams and an ACK to send, with a
\* handshake packet to retransmit, with only an ACK to send, with nothing to
\* send, and with a handshake packet, an ACK and less data than streams
FirstPaths ==
    {[streamIDs |-> {5}, queue |-> <<>>, congestionWindow |-> 3, ack |-> FALSE,
      frames |-> MaxTickStreamFrames],
     [streamIDs |-> {5, 9},
      queue |-> <<QueuedPacket(NthPacketNumber(1, 1), <<StreamFrame(5, 1)>>,
                               "forward-secure")>>,
      congestionWindow |-> 1, ack |-> TRUE, frames |-> MaxTickStreamFrames],
     [streamIDs |-> {5, 9},
      queue |-> <<QueuedPacket(NthPacketNumber(1, 1), <<StreamFrame(1, 0)>>, "secure"),
                  QueuedPacket(NthPacketNumber(1, 2), <<StreamFrame(5, 1)>>,
                               "forward-secure")>>,
      congestionWindow |-> 3, ack |-> FALSE, frames |-> MaxTickStreamFrames],
     [streamIDs |-> {5}, queue |-> <<>>, congestionWindow |-> 1, ack |-> TRUE,
      frames |-> 0],
     [streamIDs |-> {5, 9}, queue |-> <<>>, congestionWindow |-> 3, ack |-> FALSE,
      frames |-> 0],
     [streamIDs |-> {5},
      queue |-> <<QueuedPacket(NthPacketNumber(1, 1), <<StreamFrame(1, 0)>>, "secure"),
                  QueuedPacket(NthPacketNumber(1, 2), <<StreamFrame(5, 1)>>,
                               "forward-secure")>>,
      congestionWindow |-> 1, ack |-> TRUE, frames |-> 1]}

\* the state of path 2 when the tick starts: without streams, with stream
\* data and window, with a retransmission and an ACK to send, and with a
\* handshake packet to retransmit
SecondPaths ==
    {[streamIDs |-> {}, queue |-> <<>>, congestionWindow |-> 1, ack |-> FALSE,
      frames |-> 0],
     [streamIDs |-> {7}, queue |-> <<>>, congestionWindow |-> 3, ack |-> FALSE,
      frames |-> MaxTickStreamFrames],
     [streamIDs |-> {7},
      queue |-> <<QueuedPacket(NthPacketNumber(2, 1), <<StreamFrame(7, 2)>>,
                               "forward-secure")>>,
      congestionWindow |-> 1, ack |-> TRUE, frames |-> 0],
     [streamIDs |-> {7},
      queue |-> <<QueuedPacket(NthPacketNumber(2, 1), <<StreamFrame(1, 0)>>, "secure"),
                  QueuedPacket(NthPacketNumber(2, 2), <<StreamFrame(7, 2)>>,
                               "forward-secure")>>,
      congestionWindow |-> 1, ack |-> FALSE, frames |-> MaxTickStreamFrames]}

\* the session as the tick finds it
tickSession(handshakeComplete, openPaths, first, second) ==
    [perspective |-> "client",
     handshakeComplete |-> handshakeComplete,
     openPaths |-> openPaths,
     paths |-> [pid \in {openPaths[k] : k \in 1..Len(openPaths)} |->
                   IF pid = InitialPathID THEN tickPath(pid, {}, <<>>, 1, FALSE)
                   ELSE IF pid = 1
                   THEN tickPath(pid, first.streamIDs, first.queue,
                                 first.congestionWindow, first.ack)
                   ELSE tickPath(pid, second.streamIDs, second.queue,
                                 second.congestionWindow, second.ack)]]

IdlePath ==
    [streamIDs |-> {}, queue |-> <<>>, congestionWindow |-> 1, ack |-> FALSE,
     frames |-> 0]

\* a session of the initial path and path 1 with nothing to send, its run
\* loop between two ticks
InitSendTick ==
    /\ InitHandler
    /\ NoTasks
    /\ sess = tickSession(FALSE, <<0, 1>>, IdlePath, IdlePath)
    /\ sch = [quotas |-> [pid \in {0, 1} |-> 0], roundRobinIndexPath |-> 0]
    /\ packer = newPacketPacker("client")
    /\ streamFramer = [cryptoStream |-> FALSE, streamFrames |-> <<>>]
    /\ encLevel = "secure"
    /\ packetNumberGenerator = [pth \in Paths |-> 1]
    /\ called = [TickStart(<<>>) EXCEPT !.pc = "idle"]
    /\ packed = [op |-> "none", some |-> FALSE, err |-> "nil"]
    /\ composed = NotComposed

\* what happens before the tick: the handshake completes or not, path 2 is
\* opened or not, streams are assigned to the paths and written to, packets
\* are lost and queued for retransmission, packets of the peer arrive and
\* ask for an ACK, and the flow controller has a WINDOW_UPDATE to send
BetweenTicks ==
    /\ called.op = "sendPacket" /\ called.pc = "idle"
    /\ \E handshakeComplete \in BOOLEAN, openPaths \in {<<0, 1>>, <<0, 1, 2>>},
          first \in FirstPaths, second \in SecondPaths,
          wuf \in {<<>>, <<Frame("window_update")>>}, rr \in {0, 1} :
           /\ Len(openPaths) = 2 => second.streamIDs = {}
           /\ sess' = tickSession(handshakeComplete, openPaths, first, second)
           /\ sch' = [quotas |-> [pid \in {openPaths[k] : k \in 1..Len(openPaths)} |-> 0],
                      roundRobinIndexPath |-> rr]
           /\ streamFramer' = [cryptoStream |-> FALSE,
                               streamFrames |-> Repeat(StreamFrame(5, 1), first.frames)
                                                \o Repeat(StreamFrame(7, 2), second.frames)]
           /\ encLevel' = IF handshakeComplete THEN "forward-secure" ELSE "secure"
           /\ packetNumberGenerator' =
                  [pth \in Paths |->
                      NthPacketNumber(pth, 1 + Len(IF pth = 1 THEN first.queue
                                                   ELSE second.queue))]
           /\ called' = TickStart(wuf)
    /\ UNCHANGED <<packer, packed, composed>>
    /\ UNCHANGED <<hvars, wvars, cvars>>

RECURSIVE QueueControlFrames(_, _, _)
QueueControlFrames(pp, frames, pth) ==
    IF frames = <<>> THEN pp
    ELSE QueueControlFrames(QueueControlFrameResult(pp, Head(frames), pth),
                            Tail(frames), pth)

\* QueueControlFrame of the *wire.StopWaitingFrame a GetStopWaitingFrame
\* returned: a nil pointer is stored as it is
QueueStopWaiting(pp, frame, pth) == [pp EXCEPT !.stopWaiting[pth] = frame # NilFrame]

\* path.sentPacketHandler.GetStopWaitingFrame
pathGetStopWaitingFrame(pth, force) ==
    LET g == GetStopWaitingFrameResult(pth.stopWaitingManager, force)
    IN  [path |-> [pth EXCEPT !.stopWaitingManager = g.s], frame |-> g.frame]

\* session.sendPackedPacket: the packet is handed to SentPacket of the path
\* and written to its connection
sendPackedPacket(pth, packet, r, t) ==
    LET res == SentPacketResult(pth.sentPacketHandler, r,
                                [PacketNumber |-> packet.number,
                                 Frames |-> packet.frames,
                                 Length |-> WrittenLength(packet.frames),
                                 EncryptionLevel |-> packet.encryptionLevel], t)
    IN  [path |-> [pth EXCEPT !.sentPacketHandler = res.h], err |-> res.err]

\* the state a call of the tick works on
TickState(pp, sf, gen, pth, quotas, sent, err) ==
    [packer |-> pp, streamFramer |-> sf, packetNumberGenerator |-> gen,
     path |-> pth, quotas |-> quotas, sent |-> sent, err |-> err]

packAndSend(pp, sf, gen, level, pth, quotas, windowUpdateFrames, r, t, writeFails) ==
    LET pk == PackPacketOfPathResult(pp, sf, gen, level, pth.pathID, FALSE, writeFails)
        snd == sendPackedPacket(pth, pk.packet, r, t)
    IN  IF pk.err # "nil" \/ ~ pk.packet.some
        THEN TickState(pk.p, pk.streamFramer, pk.packetNumberGenerator, pth,
                       quotas, FALSE, pk.err)
        ELSE IF snd.err # "nil"
        THEN TickState(pk.p, pk.streamFramer, pk.packetNumberGenerator,
                       snd.path, quotas, FALSE, snd.err)
        ELSE TickState(QueueControlFrames(pk.p, windowUpdateFrames, pth.pathID),
                       pk.streamFramer, pk.packetNumberGenerator, snd.path,
                       performPacketSending(quotas, pth.pathID, TRUE), TRUE, "nil")

\* what the send tick leaves alone
TickUnchanged ==
    /\ UNCHANGED <<hvars, wvars, cvars>>
    /\ UNCHANGED <<encLevel, packed, composed>>

\* return err
TickReturn(err) == [called EXCEPT !.pc = "done", !.err = err]

\* sch.roundRobinIndexPath = (sch.roundRobinIndexPath + 1) % numOfPath
advanceRoundRobin(sc, numOfPath) ==
    [sc EXCEPT !.roundRobinIndexPath = (sc.roundRobinIndexPath + 1) % numOfPath]

\* sendPacket up to the outer loop.  pathScheduler has assigned the streams:
\* path.streamIDs is its result
SendPacketStart ==
    /\ called.op = "sendPacket" /\ called.pc = "start"
    /\ packer' = QueueControlFrames(packer, called.windowUpdateFrames, NoPathID)
    /\ called' = [called EXCEPT !.pc = "pathloop",
                                !.numOfPath = Cardinality(DOMAIN sess.paths),
                                !.startIndex = sch.roundRobinIndexPath,
                                !.i = 0, !.hasWindows = FALSE, !.pathsent = FALSE]
    /\ UNCHANGED <<sess, sch, streamFramer, packetNumberGenerator>>
    /\ TickUnchanged

\* PATHLOOP: the next path of the round
PathLoop ==
    /\ called.op = "sendPacket" /\ called.pc = "pathloop"
    /\ called.i < called.numOfPath
    /\ LET pid == sess.openPaths[((called.i + called.startIndex) % called.numOfPath) + 1]
           pth == sess.paths[pid]
           streamNum == Cardinality(pth.streamIDs)
       IN  /\ sess' = [sess EXCEPT !.paths[pid].leastUnacked =
                                       largestInOrderAcked(pth.sentPacketHandler) + 1]
           /\ IF streamNum > 0
              THEN /\ called' = [called EXCEPT !.pc = "stream", !.pid = pid,
                                               !.streamNum = streamNum]
                   /\ UNCHANGED sch
              ELSE /\ called' = [called EXCEPT !.pid = pid, !.streamNum = streamNum,
                                               !.i = called.i + 1]
                   /\ sch' = advanceRoundRobin(sch, called.numOfPath)
    /\ UNCHANGED <<packer, streamFramer, packetNumberGenerator>>
    /\ TickUnchanged

\* for streamNum > 0: the window of the path
StreamLoop ==
    /\ called.op = "sendPacket" /\ called.pc = "stream"
    /\ LET pth == sess.paths[called.pid]
           allowed == SendingAllowedResult(pth.sentPacketHandler, pth.congestionWindow)
       IN  IF called.streamNum = 0
           THEN /\ called' = [called EXCEPT !.pc = "pathloop", !.i = called.i + 1]
                /\ sch' = advanceRoundRobin(sch, called.numOfPath)
           ELSE IF ~ allowed
           THEN /\ called' = [called EXCEPT !.pc = "pathloop", !.i = called.i + 1,
                                            !.hasWindows = called.hasWindows \/ allowed]
                /\ sch' = advanceRoundRobin(sch, called.numOfPath)
           ELSE /\ called' = [called EXCEPT
                                 !.pc = "dequeue",
                                 !.hasWindows = TRUE,
                                 !.hasRetransmission = FALSE,
                                 !.retransmitHandshakePacket = <<>>,
                                 !.queuedAtCall =
                                     Len(pth.sentPacketHandler.retransmissionQueue),
                                 !.dequeued = 0, !.iterations = 0]
                /\ UNCHANGED sch
    /\ UNCHANGED <<sess, packer, streamFramer, packetNumberGenerator>>
    /\ TickUnchanged

\* the frames of a dequeued packet, back to the framer and the packer
RECURSIVE requeueFrames(_, _, _, _)
requeueFrames(pp, sf, frames, pth) ==
    IF frames = <<>> THEN [packer |-> pp, streamFramer |-> sf]
    ELSE IF Head(frames).Type = "stream"
    THEN requeueFrames(pp, AddFrameForRetransmission(sf, Head(frames)), Tail(frames), pth)
    ELSE requeueFrames(QueueControlFrameResult(pp, Head(frames), pth), sf,
                       Tail(frames), pth)

\* one iteration of the loop of getRetransmissionOfPath
GetRetransmissionOfPath ==
    /\ called.op = "sendPacket" /\ called.pc = "dequeue"
    /\ LET pth == sess.paths[called.pid]
           queue == pth.sentPacketHandler.retransmissionQueue
       IN  IF queue = <<>>
           THEN /\ called' = [called EXCEPT !.pc = "send",
                                            !.iterations = called.iterations + 1]
                /\ UNCHANGED <<sess, packer, streamFramer>>
           ELSE LET retransmitPacket == Head(queue)
                    c1 == [called EXCEPT !.hasRetransmission = TRUE,
                                         !.dequeued = called.dequeued + 1,
                                         !.iterations = called.iterations + 1]
                IN  /\ sess' = [sess EXCEPT
                                   !.paths[called.pid].sentPacketHandler.retransmissionQueue =
                                       Tail(queue)]
                    /\ IF retransmitPacket.EncryptionLevel # "forward-secure"
                       THEN /\ called' = IF sess.handshakeComplete THEN c1
                                         ELSE [c1 EXCEPT !.pc = "send",
                                                         !.retransmitHandshakePacket =
                                                             <<retransmitPacket>>]
                            /\ UNCHANGED <<packer, streamFramer>>
                       ELSE LET q == requeueFrames(packer, streamFramer,
                                                   retransmitPacket.Frames, called.pid)
                            IN  /\ called' = c1
                                /\ packer' = q.packer
                                /\ streamFramer' = q.streamFramer
    /\ UNCHANGED <<sch, packetNumberGenerator>>
    /\ TickUnchanged

\* the handshake retransmission of sendPacket: the STOP_WAITING frame is
\* queued, the packet is packed by PackHandshakeRetransmission and sent
retransmitHandshake(pp, sf, gen, level, pth0, quotas, handshakeRetransmission, r, t) ==
    LET g1 == pathGetStopWaitingFrame(pth0, TRUE)
        hs == PackHandshakeRetransmissionResult(
                  QueueStopWaiting(pp, g1.frame, pth0.pathID), sf, gen, level,
                  Head(handshakeRetransmission), pth0.pathID, FALSE)
        hsent == sendPackedPacket(g1.path, hs.packet, r, t)
    IN  IF handshakeRetransmission = <<>>
        THEN TickState(pp, sf, gen, pth0, quotas, FALSE, "nil")
        ELSE IF hs.err # "nil"
        THEN TickState(hs.p, hs.streamFramer, hs.packetNumberGenerator, g1.path,
                       quotas, FALSE, hs.err)
        ELSE TickState(hs.p, hs.streamFramer, hs.packetNumberGenerator, hsent.path,
                       quotas, FALSE, hsent.err)

\* path.GetAckFrame hands over the ACK frame of the path, if it has one; the
\* ACK frame and the STOP_WAITING frame are queued
queueAckAndStopWaiting(s1, hasStreamRetransmission) ==
    LET ack == s1.path.ack
        pathID == s1.path.pathID
        p2 == IF ack THEN QueueControlFrameResult(s1.packer, Frame("ack"), pathID)
              ELSE s1.packer
        pth2 == [s1.path EXCEPT !.ack = FALSE]
        g2 == pathGetStopWaitingFrame(pth2, hasStreamRetransmission)
    IN  IF ~ (ack \/ hasStreamRetransmission)
        THEN [s1 EXCEPT !.packer = p2, !.path = pth2]
        ELSE [s1 EXCEPT !.packer = IF g2.frame # NilFrame
                                   THEN QueueStopWaiting(p2, g2.frame, pathID) ELSE p2,
                        !.path = g2.path]

\* the rest of the iteration of the loop over the streams of the path: the
\* handshake retransmission, the ACK and STOP_WAITING frames and
\* performPacketSending
inner(pp, sf, gen, level, pth0, quotas, windowUpdateFrames, handshakeRetransmission, r, t, writeFails) ==
    TheOne({IF s1.err # "nil" THEN s1
            ELSE TheOne({packAndSend(s2.packer, s2.streamFramer,
                                     s2.packetNumberGenerator, level, s2.path,
                                     quotas, windowUpdateFrames, r, t, writeFails) :
                         s2 \in {queueAckAndStopWaiting(
                                     s1, HasFramesForRetransmission(sf))}}) :
            s1 \in {retransmitHandshake(pp, sf, gen, level, pth0, quotas,
                                        handshakeRetransmission, r, t)}})

\* one step of sendPacket's inner loop, from the result of getRetransmissionOfPath
SendOnPath ==
    /\ called.op = "sendPacket" /\ called.pc = "send"
    /\ \E writeFails \in BOOLEAN :
         \E res \in {inner(packer, streamFramer, packetNumberGenerator, encLevel,
                          sess.paths[called.pid], sch.quotas,
                          called.windowUpdateFrames,
                          called.retransmitHandshakePacket, rttStats, now,
                          writeFails)} :
             /\ packer' = res.packer
             /\ streamFramer' = res.streamFramer
             /\ packetNumberGenerator' = res.packetNumberGenerator
             /\ sess' = [sess EXCEPT !.paths[called.pid] = res.path]
             /\ called' = IF res.err # "nil" THEN TickReturn(res.err)
                          ELSE IF ~ res.sent
                          THEN [called EXCEPT !.pc = "pathloop",
                                              !.windowUpdateFrames = <<>>,
                                              !.i = called.i + 1]
                          ELSE [called EXCEPT !.pc = "stream",
                                              !.windowUpdateFrames = <<>>,
                                              !.pathsent = TRUE,
                                              !.sentInRound = TRUE,
                                              !.streamNum = called.streamNum - 1]
             /\ sch' = IF res.err # "nil" THEN sch
                       ELSE IF ~ res.sent
                       THEN advanceRoundRobin([sch EXCEPT !.quotas = res.quotas],
                                              called.numOfPath)
                       ELSE [sch EXCEPT !.quotas = res.quotas]
    /\ TickUnchanged

\* what ackRemainingPaths has done so far
AckState(pp, sf, gen, paths, err) ==
    [packer |-> pp, streamFramer |-> sf, packetNumberGenerator |-> gen,
     paths |-> paths, err |-> err]

\* the body of the loop of ackRemainingPaths on the path pid
ackPath(pp, sf, gen, level, paths, pid, windowUpdateFrames, r, t) ==
    LET pthTmp == paths[pid]
        ackTmp == pthTmp.ack
        p1 == QueueControlFrames(pp, windowUpdateFrames, pid)
        pth1 == [pthTmp EXCEPT !.ack = FALSE]
        g == pathGetStopWaitingFrame(pth1, FALSE)
        p2 == IF g.frame # NilFrame THEN QueueStopWaiting(p1, g.frame, pid) ELSE p1
        p3 == [p2 EXCEPT !.ackFrame[pid] = ackTmp]
        pk == IF ackTmp THEN PackAckPacketResult(p3, sf, gen, level, pid, FALSE)
              ELSE PackPacketOfPathResult(p3, sf, gen, level, pid, FALSE, FALSE)
        snd == sendPackedPacket(g.path, pk.packet, r, t)
    IN  IF ~ (ackTmp \/ Len(windowUpdateFrames) > 0)
           \/ (pid = InitialPathID /\ ~ ackTmp)
        THEN AckState(p1, sf, gen, [paths EXCEPT ![pid] = pth1], "nil")
        ELSE IF pk.err # "nil"
        THEN AckState(pk.p, pk.streamFramer, pk.packetNumberGenerator,
                      [paths EXCEPT ![pid] = g.path], pk.err)
        ELSE AckState(pk.p, pk.streamFramer, pk.packetNumberGenerator,
                      [paths EXCEPT ![pid] = snd.path], snd.err)

\* ackRemainingPaths, over the paths in the order given
RECURSIVE ackRemainingPaths(_, _, _, _, _, _, _, _, _)
ackRemainingPaths(pp, sf, gen, level, paths, order, windowUpdateFrames, r, t) ==
    IF order = <<>> THEN AckState(pp, sf, gen, paths, "nil")
    ELSE TheOne({IF a.err # "nil" THEN a
                 ELSE ackRemainingPaths(a.packer, a.streamFramer,
                                        a.packetNumberGenerator, level, a.paths,
                                        Tail(order), windowUpdateFrames, r, t) :
                 a \in {ackPath(pp, sf, gen, level, paths, Head(order),
                                windowUpdateFrames, r, t)}})

\* the test that ends the tick after a round of the outer loop
sendPacketContinuesWithWindows(pathsent, hasWindows) == hasWindows
sendPacketContinues(pathsent, hasWindows) == ~ (~ pathsent \/ ~ hasWindows)

\* the end of a round: a new round, or ackRemainingPaths and return
RoundEnd ==
    /\ called.op = "sendPacket" /\ called.pc = "pathloop"
    /\ called.i >= called.numOfPath
    /\ IF sendPacketContinues(called.pathsent, called.hasWindows)
       THEN /\ called' = [called EXCEPT !.i = 0, !.hasWindows = FALSE,
                                        !.pathsent = FALSE, !.sentInRound = FALSE,
                                        !.rounds = Min(called.rounds + 1, MaxRounds)]
            /\ UNCHANGED <<sess, sch, packer, streamFramer, packetNumberGenerator>>
       ELSE \E res \in {ackRemainingPaths(packer, streamFramer, packetNumberGenerator,
                                         encLevel, sess.paths, sess.openPaths,
                                         called.windowUpdateFrames, rttStats, now)} :
                /\ called' = TickReturn(res.err)
                /\ sess' = [sess EXCEPT !.paths = res.paths]
                /\ packer' = res.packer
                /\ streamFramer' = res.streamFramer
                /\ packetNumberGenerator' = res.packetNumberGenerator
                /\ UNCHANGED sch
    /\ TickUnchanged

sendPacket ==
    \/ SendPacketStart
    \/ PathLoop
    \/ StreamLoop
    \/ GetRetransmissionOfPath
    \/ SendOnPath
    \/ RoundEnd

NextSendTick ==
    \/ BetweenTicks
    \/ sendPacket

SpecSendTick == InitSendTick /\ [][NextSendTick]_vars

\* a step of sendPacket, as seen on its locals: between its first statement
\* and its return every step changes the position, a loop counter or the
\* count of iterations
sendPacketStep ==
    /\ called.op = "sendPacket" /\ called.pc \notin {"idle", "done"}
    /\ called' # called

\* the run loop of the session executes the tick without waiting: a step of
\* sendPacket that can be taken is eventually taken.  This is
\* WF_vars(sendPacket) written out: sendPacket can take a step exactly
\* between the first statement of the tick and its return
SpecSendTickFair ==
    /\ SpecSendTick
    /\ \/ []<>(called.pc \in {"idle", "done"})
       \/ []<><<sendPacketStep>>_vars

(***************************************************************************)
(* Properties of the sent-packet handler.  A property of a call is stated  *)
(* in every reachable state where calls are made, for every input the call *)
(* can be given there.                                                     *)
(***************************************************************************)
RcvTimes == {now, now + TimeStep}
NoSkippedBelow(hh) ==
    \A i \in 1..Len(hh.skippedPackets) : hh.skippedPackets[i] > largestInOrderAcked(hh)
\* calls are made in the states where the run has not ended
Live == ~ last.rejected
\* the frame covers a number of the skipped list
CoversSkipped(f) ==
    \E p \in {h.skippedPackets[i] : i \in 1..Len(h.skippedPackets)} : AcksPacket(f, p)
\* the frame passes the checks of ReceivedAck that come before the skipped check
PassesEarlyChecks(f, withPN) ==
    /\ f.LargestAcked <= h.lastSentPacketNumber
    /\ withPN > h.largestReceivedPacketWithAck
    /\ f.LargestAcked > largestInOrderAcked(h)

\* C1: in every reachable state bytesInFlight is the sum of Length over the
\* packets of the packet history, whatever removed packets from it.
C1_BytesInFlight == h.bytesInFlight = SumLength(h.packetHistory)

\* an ACK removed a packet from the history while another stayed in flight
C1_Witness ==
    /\ last.op = "ReceivedAck" /\ last.acked # {}
    /\ h.packetHistory # <<>> /\ h.bytesInFlight > 0

\* C2: SentPacket with a packet number <= lastSentPacketNumber fails with
\* PacketNumberNotIncreasing and leaves the handler as it was; a SentPacket
\* that succeeds sets lastSentPacketNumber to a strictly larger number.
C2_SentPacketIncreasing ==
    Live =>
    \A packet \in SentPackets :
        LET res == SentPacketResult(h, rttStats, packet, now)
        IN  /\ packet.PacketNumber <= h.lastSentPacketNumber
                => res.err = "PacketNumberNotIncreasing" /\ res.h = h
            /\ res.err = "nil"
                => /\ res.h.lastSentPacketNumber = packet.PacketNumber
                   /\ res.h.lastSentPacketNumber > h.lastSentPacketNumber

\* a SentPacket was rejected by a handler that tracks packets
C2_Witness ==
    /\ last.op = "SentPacket" /\ last.err = "PacketNumberNotIncreasing"
    /\ h.lastSentPacketNumber >= 2
    /\ h.packetHistory # <<>> /\ h.skippedPackets # <<>> /\ h.alarm # 0

\* C3: LargestAcked never decreases: after every call it is >= its value
\* before the call.
C3_LargestAckedNeverDecreases == [][h'.LargestAcked >= h.LargestAcked]_vars

\* C4: a ReceivedAck that passes all checks returns no error and acks exactly
\* the packets of the history whose number the frame covers (within
\* [LowestAcked, LargestAcked] and, with missing ranges, inside an ACK
\* range); the acked packets leave the history without being queued for
\* retransmission, every other packet stays tracked, and bytesInFlight drops
\* by the acked packets' lengths.
C4_NewlyAcked ==
    Live =>
    \A f \in AckFrames, withPN \in WithPacketNumbers, t \in RcvTimes :
        LET res == ReceivedAckResult(h, rttStats, f, withPN, t)
            covered == {p \in PNs(h.packetHistory) : AcksPacket(f, p)}
            after == PNs(res.h.packetHistory) \cup PNs(res.h.retransmissionQueue)
        IN  PassesEarlyChecks(f, withPN) /\ ~ CoversSkipped(f)
            => /\ res.err = "nil"
               /\ res.acked = covered
               /\ after \cap covered = {}
               /\ PNs(h.packetHistory) \ covered \subseteq after
               /\ res.h.bytesInFlight = SumLength(res.h.packetHistory)

\* an ACK with missing ranges removed a packet and left another
C4_Witness ==
    /\ last.op = "ReceivedAck" /\ last.err = "nil"
    /\ last.missing /\ last.acked # {}
    /\ h.packetHistory # <<>>

\* C5 as stated: ReceivedAck fails with AckForSkippedPacket whenever the frame
\* covers a number of the skipped list, and then removes nothing.
C5_SkippedAlwaysDetected ==
    Live =>
    \A f \in AckFrames, withPN \in WithPacketNumbers :
        LET res == ReceivedAckResult(h, rttStats, f, withPN, now)
        IN  CoversSkipped(f)
            => /\ res.err = "AckForSkippedPacket"
               /\ res.h.packetHistory = h.packetHistory
               /\ res.h.bytesInFlight = h.bytesInFlight

\* C5 amended: a frame that passes the unsent, duplicate and stale checks and
\* covers a number of the skipped list fails with AckForSkippedPacket, and
\* the history and bytesInFlight are left as they were.
C5_SkippedDetected ==
    Live =>
    \A f \in AckFrames, withPN \in WithPacketNumbers :
        LET res == ReceivedAckResult(h, rttStats, f, withPN, now)
        IN  PassesEarlyChecks(f, withPN) /\ CoversSkipped(f)
            => /\ res.err = "AckForSkippedPacket"
               /\ res.h.packetHistory = h.packetHistory
               /\ res.h.bytesInFlight = h.bytesInFlight

\* a ReceivedAck failed with AckForSkippedPacket while packets were in flight
C5_Witness ==
    /\ last.op = "ReceivedAck" /\ last.err = "AckForSkippedPacket"
    /\ h.packetHistory # <<>> /\ h.skippedPackets # <<>>

\* C6: ReceivedAck and ReceivedClosePath of a frame with LargestAcked >
\* lastSentPacketNumber fail with AckForUnsentPacket and leave the handler
\* and the RTT statistics as they were.
C6_UnsentLeavesState ==
    Live =>
    \A f \in AckFrames, withPN \in WithPacketNumbers :
        LET ack == ReceivedAckResult(h, rttStats, f, withPN, now)
            cp  == ReceivedClosePathResult(h, rttStats, f, withPN)
        IN  f.LargestAcked > h.lastSentPacketNumber
            => /\ ack.err = "AckForUnsentPacket" /\ ack.h = h /\ ack.rttStats = rttStats
               /\ cp.err = "AckForUnsentPacket" /\ cp.h = h /\ cp.rttStats = rttStats

\* a ReceivedClosePath was rejected for an unsent packet by a handler that
\* has sent packets and has not yet received any frame
C6_Witness ==
    /\ last.op = "ReceivedClosePath" /\ last.err = "AckForUnsentPacket"
    /\ h.packetHistory # <<>> /\ h.largestReceivedPacketWithAck = 0

\* C7 as stated: ReceivedAck with withPacketNumber <= largestReceivedPacketWithAck
\* fails with DuplicateOrOutOfOrderAck and changes nothing; otherwise
\* largestReceivedPacketWithAck becomes withPacketNumber.
C7_DuplicateAlways ==
    Live =>
    \A f \in AckFrames, withPN \in WithPacketNumbers :
        LET res == ReceivedAckResult(h, rttStats, f, withPN, now)
        IN  IF withPN <= h.largestReceivedPacketWithAck
            THEN res.err = "DuplicateOrOutOfOrderAck" /\ res.h = h
            ELSE res.h.largestReceivedPacketWithAck = withPN

\* C7 amended: for a frame whose LargestAcked is <= lastSentPacketNumber,
\* ReceivedAck with withPacketNumber <= largestReceivedPacketWithAck fails
\* with DuplicateOrOutOfOrderAck and changes nothing; otherwise
\* largestReceivedPacketWithAck becomes withPacketNumber, a strictly larger
\* number.
C7_DuplicateAfterUnsentCheck ==
    Live =>
    \A f \in AckFrames, withPN \in WithPacketNumbers :
        LET res == ReceivedAckResult(h, rttStats, f, withPN, now)
        IN  f.LargestAcked <= h.lastSentPacketNumber
            => IF withPN <= h.largestReceivedPacketWithAck
               THEN res.err = "DuplicateOrOutOfOrderAck" /\ res.h = h
               ELSE /\ res.err # "DuplicateOrOutOfOrderAck"
                    /\ res.h.largestReceivedPacketWithAck = withPN
                    /\ res.h.largestReceivedPacketWithAck > h.largestReceivedPacketWithAck

\* a ReceivedAck was rejected as a duplicate after an earlier one had acked
C7_Witness ==
    /\ last.op = "ReceivedAck" /\ last.err = "DuplicateOrOutOfOrderAck"
    /\ h.largestReceivedPacketWithAck >= 1 /\ h.LargestAcked >= 1

\* C8: the skipped-packets list never holds more than
\* MaxTrackedSkippedPackets entries.
C8_SkippedCapped == Len(h.skippedPackets) <= MaxTrackedSkippedPackets

\* a SentPacket that left a gap of more numbers than the cap: the list is
\* full and its oldest number has been dropped
C8_Witness ==
    /\ last.op = "SentPacket" /\ last.err = "nil"
    /\ Len(h.skippedPackets) = MaxTrackedSkippedPackets
    /\ h.lastSentPacketNumber = MaxTrackedSkippedPackets + 2
    /\ h.lastSentTime = StartTime
    /\ Len(h.packetHistory) <= 1
    /\ Head(h.skippedPackets) = 2

\* C9 as stated: in every reachable state the skipped-packets list holds no
\* number <= largestInOrderAcked().
C9_NoSkippedBelowAlways == NoSkippedBelow(h)

\* C9 amended: right after a ReceivedAck that passes all checks, and right
\* after a ReceivedClosePath that returns no error, the skipped-packets list
\* holds no number <= largestInOrderAcked().
C9_NoSkippedBelowAfterAck ==
    Live =>
    \A f \in AckFrames, withPN \in WithPacketNumbers, t \in RcvTimes :
        LET ack == ReceivedAckResult(h, rttStats, f, withPN, t)
            cp  == ReceivedClosePathResult(h, rttStats, f, withPN)
        IN  /\ PassesEarlyChecks(f, withPN) /\ ack.err = "nil" => NoSkippedBelow(ack.h)
            /\ cp.err = "nil" => NoSkippedBelow(cp.h)

\* a ReceivedAck acked a packet and the list still holds a skipped number
C9_Witness ==
    /\ last.op = "ReceivedAck" /\ last.err = "nil" /\ last.acked # {}
    /\ h.skippedPackets # <<>>

Tracked(hh) == Len(hh.retransmissionQueue) + Len(hh.packetHistory)

\* C16: SendingAllowed() is false when the tracked packets (history and
\* retransmission queue) have reached MaxTrackedSentPackets; below the
\* ceiling it is true when packets are queued for retransmission, also when
\* bytesInFlight exceeds the congestion window, and otherwise it is true
\* exactly when bytesInFlight is at most the congestion window.
C16_SendingAllowed ==
    Live =>
        /\ \A congestionWindow \in CongestionWindows :
               LET allowed == SendingAllowedResult(h, congestionWindow)
               IN  /\ Tracked(h) >= MaxTrackedSentPackets => ~ allowed
                   /\ (Tracked(h) < MaxTrackedSentPackets
                          /\ h.retransmissionQueue # <<>>) => allowed
                   /\ (Tracked(h) < MaxTrackedSentPackets
                          /\ h.retransmissionQueue = <<>>)
                         => (allowed <=> h.bytesInFlight <= congestionWindow)
        /\ last.op = "SendingAllowed" =>
               (last.allowed <=>
                    /\ Tracked(h) < MaxTrackedSentPackets
                    /\ \/ h.bytesInFlight <= last.congestionWindow
                       \/ h.retransmissionQueue # <<>>)

\* SendingAllowed() has returned true on a path whose bytesInFlight exceeds
\* the congestion window and which has a packet queued for retransmission
C16_Witness ==
    /\ last.op = "SendingAllowed" /\ last.allowed
    /\ h.bytesInFlight > last.congestionWindow
    /\ h.retransmissionQueue # <<>>

\* C17 as stated: the tracked packets (history and retransmission queue)
\* never exceed MaxTrackedSentPackets, whatever sequence of SentPacket,
\* ReceivedAck, OnAlarm and DuplicatePacket has been made.
C17_TrackedNeverExceedsCeiling ==
    Tracked(h) <= MaxTrackedSentPackets

\* C25: the packet history is sorted by strictly ascending PacketNumber, and
\* every packet in it has a number <= lastSentPacketNumber and carries at
\* least one retransmittable frame.
C25_HistorySorted ==
    /\ \A i, j \in 1..Len(h.packetHistory) :
           i < j => h.packetHistory[i].PacketNumber < h.packetHistory[j].PacketNumber
    /\ \A i \in 1..Len(h.packetHistory) :
           /\ h.packetHistory[i].PacketNumber <= h.lastSentPacketNumber
           /\ h.packetHistory[i].Frames # <<>>
           /\ stripNonRetransmittableFrames(h.packetHistory[i].Frames)
                  = h.packetHistory[i].Frames

\* the history holds two packets with a gap between their numbers: the
\* packet between them was sent without a retransmittable frame
C25_Witness ==
    /\ Len(h.packetHistory) = 2
    /\ h.packetHistory[2].PacketNumber > h.packetHistory[1].PacketNumber + 1
    /\ h.skippedPackets = <<>>
    /\ h.retransmissionQueue = <<>>
    /\ h.LargestAcked = 0

\* C26: a ReceivedAck that passes the unsent and the duplicate check with
\* LargestAcked <= largestInOrderAcked() returns no error and changes
\* nothing but largestReceivedPacketWithAck: history, bytesInFlight,
\* LargestAcked, retransmission queue, rtoCount, tlpCount, lossTime, alarm,
\* the stop-waiting manager and the RTT statistics stay as they were.
C26_StaleAckIgnored ==
    Live =>
    \A f \in AckFrames, withPN \in WithPacketNumbers, t \in RcvTimes :
        LET res == ReceivedAckResult(h, rttStats, f, withPN, t)
        IN  ( /\ f.LargestAcked <= h.lastSentPacketNumber
              /\ withPN > h.largestReceivedPacketWithAck
              /\ f.LargestAcked <= largestInOrderAcked(h) )
            => /\ res.err = "nil"
               /\ res.acked = {}
               /\ res.h = [h EXCEPT !.largestReceivedPacketWithAck = withPN]
               /\ res.rttStats = rttStats

\* a ReceivedAck for a number below the front of the history has returned
\* without error: it was recorded as received and LargestAcked is still 0
C26_Witness ==
    /\ last.op = "ReceivedAck" /\ last.err = "nil" /\ last.acked = {}
    /\ h.largestReceivedPacketWithAck > 0
    /\ h.LargestAcked = 0
    /\ h.packetHistory # <<>> /\ h.alarm # 0

\* the packets of the history that are lost at time t: acknowledged past
\* (number <= LargestAcked) and older than delayUntilLost
LostAt(hh, r, t) ==
    SelectSeq(hh.packetHistory,
              LAMBDA p : p.PacketNumber <= hh.LargestAcked
                         /\ t - p.SendTime > delayUntilLost(r))

NotYetLostAt(hh, r, t) ==
    SelectSeq(hh.packetHistory,
              LAMBDA p : p.PacketNumber <= hh.LargestAcked
                         /\ ~ (t - p.SendTime > delayUntilLost(r)))

\* after is before with the lost packets moved from the history to the tail
\* of the retransmission queue, and lossTime set by the first packet not yet lost
LossDetected(before, r, t, after) ==
    /\ after.retransmissionQueue = before.retransmissionQueue \o LostAt(before, r, t)
    /\ after.packetHistory =
           SelectSeq(before.packetHistory,
                     LAMBDA p : p.PacketNumber \notin PNs(LostAt(before, r, t)))
    /\ \A i \in 1..Len(before.packetHistory) :
           before.packetHistory[i].PacketNumber > before.LargestAcked
               => before.packetHistory[i].PacketNumber \in PNs(after.packetHistory)
    /\ after.bytesInFlight = before.bytesInFlight - SumLength(LostAt(before, r, t))
    /\ after.lossTime =
           IF NotYetLostAt(before, r, t) = <<>> THEN 0
           ELSE Head(NotYetLostAt(before, r, t)).SendTime + delayUntilLost(r)

\* the handler in ReceivedAck when it calls detectLostPackets: LargestAcked
\* is the frame's and the newly acked packets have left the history
BeforeLossDetection(hh, f, acked) ==
    LET ackedPackets == SelectSeq(hh.packetHistory, LAMBDA p : p.PacketNumber \in acked)
    IN  [hh EXCEPT !.LargestAcked = f.LargestAcked,
                   !.packetHistory =
                       SelectSeq(hh.packetHistory,
                                 LAMBDA p : p.PacketNumber \notin acked),
                   !.bytesInFlight = hh.bytesInFlight - SumLength(ackedPackets)]

\* C27: detectLostPackets declares lost exactly the packets of the history
\* with a number <= LargestAcked that were sent more than delayUntilLost
\* ago; they are moved from the history to the tail of the retransmission
\* queue in ascending order of their numbers, no packet above LargestAcked
\* is touched, and lossTime is set from the first packet <= LargestAcked that
\* is not yet lost, and is zero when there is none.  This holds for the
\* function on every reachable handler, where ReceivedAck calls it, and
\* where OnAlarm calls it (lossTime set).
C27_TimeThresholdLoss ==
    Live =>
    /\ \A t \in RcvTimes :
           LossDetected(h, rttStats, t, detectLostPackets(h, rttStats, t))
    /\ \A f \in AckFrames, withPN \in WithPacketNumbers, t \in RcvTimes :
           LET res == ReceivedAckResult(h, rttStats, f, withPN, t)
           IN  ( /\ PassesEarlyChecks(f, withPN) /\ ~ CoversSkipped(f)
                 /\ res.err = "nil" )
               => LossDetected(BeforeLossDetection(h, f, res.acked),
                               res.rttStats, t, res.h)
    /\ \A t \in {Max(now, h.alarm), Max(now, h.alarm) + TimeStep},
          potentiallyFailed \in BOOLEAN :
           (h.packetHistory # <<>> /\ h.lossTime # 0)
               => LossDetected(h, rttStats, t,
                               OnAlarmResult(h, rttStats, potentiallyFailed, t).h)

\* the only ACK received acknowledges up to packet 2 and nothing of the
\* history: packet 1, sent TimeStep ago, is queued for retransmission by the
\* loss detection of this call and packet 3 stays in the history
C27_Witness ==
    /\ last.op = "ReceivedAck" /\ last.err = "nil" /\ last.acked = {}
    /\ h.largestReceivedPacketWithAck = 1
    /\ h.tlpCount = 0 /\ h.rtoCount = 0
    /\ h.LargestAcked = 2
    /\ PNs(h.retransmissionQueue) = {1}
    /\ PNs(h.packetHistory) = {3}

\* the alarm of hh is what the alarm selection gives: disarmed with an empty
\* history, else lossTime if set, else the TLP deadline if smoothedRTT # 0
\* and tlpCount < 2, else the RTO deadline
AlarmSelected(hh, r) ==
    IF hh.packetHistory = <<>> THEN hh.alarm = 0
    ELSE /\ hh.alarm # 0
         /\ hh.alarm =
                IF hh.lossTime # 0 THEN hh.lossTime
                ELSE IF r.smoothedRTT # 0 /\ hh.tlpCount < 2
                     THEN hh.lastSentTime + computeTLPTimeout(hh, r)
                ELSE hh.lastSentTime + Max(computeRTOTimeout(hh, r), minRetransmissionTime)

AlarmTimes == {Max(now, h.alarm), Max(now, h.alarm) + TimeStep}

\* C29: tlpCount never exceeds 2; with packets outstanding and lossTime unset
\* OnAlarm is a tail loss probe while tlpCount < 2 (the newest packet of the
\* history goes to the retransmission queue, tlpCount grows by one, rtoCount
\* is kept) and an RTO afterwards (rtoCount grows by one, tlpCount is kept);
\* a ReceivedAck or ReceivedClosePath that newly acknowledges a packet leaves
\* tlpCount = rtoCount = 0.  So at most two probes are sent between two
\* acknowledgements of new packets.
C29_AtMostTwoTailLossProbes ==
    /\ h.tlpCount \in 0..2
    /\ Live =>
        /\ \A potentiallyFailed \in BOOLEAN, t \in AlarmTimes :
               LET res == OnAlarmResult(h, rttStats, potentiallyFailed, t)
                   n == Len(h.packetHistory)
               IN  (h.packetHistory # <<>> /\ h.lossTime = 0) =>
                       IF h.tlpCount < 2
                       THEN /\ res.h.tlpCount = h.tlpCount + 1
                            /\ res.h.rtoCount = h.rtoCount
                            /\ res.h.retransmissionQueue
                                  = Append(h.retransmissionQueue, h.packetHistory[n])
                            /\ res.h.packetHistory = SubSeq(h.packetHistory, 1, n - 1)
                       ELSE /\ res.h.tlpCount = h.tlpCount
                            /\ res.h.rtoCount = h.rtoCount + 1
        /\ \A f \in AckFrames, withPN \in WithPacketNumbers, t \in RcvTimes :
               LET res == ReceivedAckResult(h, rttStats, f, withPN, t)
               IN  res.acked # {} => res.h.tlpCount = 0 /\ res.h.rtoCount = 0
        /\ \A f \in AckFrames, withPN \in WithPacketNumbers :
               LET res == ReceivedClosePathResult(h, rttStats, f, withPN)
               IN  res.acked # {} => res.h.tlpCount = 0 /\ res.h.rtoCount = 0

\* the third firing of the alarm without an acknowledgement in between was an RTO
C29_Witness ==
    /\ last.op = "OnAlarm"
    /\ h.tlpCount = 2 /\ h.rtoCount = 1
    /\ Len(h.retransmissionQueue) = 3

\* two probes and an RTO were followed by an acknowledgement of a new packet
C29_WitnessReset ==
    /\ last.op = "ReceivedAck" /\ last.acked # {}
    /\ h.tlpCount = 0 /\ h.rtoCount = 0
    /\ Len(h.retransmissionQueue) >= 2

\* C30: when OnAlarm fires as an RTO (packets outstanding, lossTime unset,
\* tlpCount = 2): if the path is reported as potentially failed the whole
\* history is appended to the retransmission queue in ascending packet
\* number order, the history is empty and bytesInFlight is 0; otherwise
\* exactly the min(2, |history|) oldest packets are appended and the others
\* stay; rtoCount grows by exactly 1 and the alarm is what the alarm
\* selection gives for the remaining history.
C30_RetransmissionTimeout ==
    Live =>
    \A potentiallyFailed \in BOOLEAN, t \in AlarmTimes :
        LET res == OnAlarmResult(h, rttStats, potentiallyFailed, t)
            n == Len(h.packetHistory)
            k == IF potentiallyFailed THEN n ELSE Min(2, n)
        IN  (h.packetHistory # <<>> /\ h.lossTime = 0 /\ h.tlpCount >= maxTailLossProbes) =>
                /\ res.h.retransmissionQueue
                      = h.retransmissionQueue \o SubSeq(h.packetHistory, 1, k)
                /\ res.h.packetHistory = SubSeq(h.packetHistory, k + 1, n)
                /\ \A i \in 1..(k - 1) :
                       h.packetHistory[i].PacketNumber < h.packetHistory[i + 1].PacketNumber
                /\ potentiallyFailed =>
                       res.h.packetHistory = <<>> /\ res.h.bytesInFlight = 0
                /\ res.h.bytesInFlight
                      = h.bytesInFlight - SumLength(SubSeq(h.packetHistory, 1, k))
                /\ res.h.rtoCount = h.rtoCount + 1
                /\ res.h.tlpCount = h.tlpCount
                /\ AlarmSelected(res.h, res.rttStats)

\* an RTO on a history of three or more packets has queued the two oldest
\* and left the others
C30_Witness ==
    /\ last.op = "OnAlarm"
    /\ h.tlpCount = 2 /\ h.rtoCount = 1
    /\ h.packetHistory # <<>>
    /\ h.alarm # 0

\* an RTO on a potentially failed path has queued a history of three packets
C30_WitnessFailed ==
    /\ last.op = "OnAlarm"
    /\ h.tlpCount = 2 /\ h.rtoCount = 1
    /\ h.packetHistory = <<>> /\ h.bytesInFlight = 0
    /\ Len(h.retransmissionQueue) = 3
    /\ h.alarm = 0

\* C31: for every rtoCount reached by RTO firings without an ack,
\* computeRTOTimeout lies between minRTOTimeout (200 ms) and maxRTOTimeout
\* (60 s) and is not below its value for rtoCount - 1: the 64-bit shift
\* never wraps to zero or to a negative duration.
C31_BackoffWithinBounds ==
    LET rto == computeRTOTimeout(h, rttStats)
    IN  /\ minRTOTimeout <= rto
        /\ rto <= maxRTOTimeout
        /\ h.rtoCount > 0 =>
               computeRTOTimeout([h EXCEPT !.rtoCount = h.rtoCount - 1], rttStats) <= rto

\* C32: after a ReceivedClosePath(f) that returns no error, no packet with
\* a number <= f.LargestAcked is left in the history: the packets in the
\* ranges of the frame are acknowledged and every other packet of the
\* history up to f.LargestAcked is appended to the retransmission queue,
\* whatever LargestAcked the earlier ACK frames carried.
C32_ClosePathClearsHistory ==
    Live =>
    \A f \in AckFrames, withPN \in WithPacketNumbers :
        LET res == ReceivedClosePathResult(h, rttStats, f, withPN)
            lost == SelectSeq(h.packetHistory,
                              LAMBDA p : /\ p.PacketNumber <= f.LargestAcked
                                         /\ p.PacketNumber \notin res.acked)
        IN  res.err = "nil" =>
                /\ \A i \in 1..Len(res.h.packetHistory) :
                       res.h.packetHistory[i].PacketNumber > f.LargestAcked
                /\ res.h.retransmissionQueue = h.retransmissionQueue \o lost

\* the volumes of the candidates after Step 2 of choosePaths
AfterCloseGaps(s, strID, sorted) ==
    LET stream == choosePaths(s, strID, s.streams[strID].weight, sorted).stream
        bdw == [pathID \in avalPaths(s) |-> pathsBdw(s, s.streams[strID].weight, pathID)]
        owd == [pathID \in avalPaths(s) |-> pathsOwd(s, pathID)]
    IN  closeGaps(bdw, owd, sorted, 1,
                  [volume |-> Float64(stream.size),
                   pathsVolume |-> [pathID \in avalPaths(s) |-> Float64(0)]]).pathsVolume

C34_StreamsAssignedOnce ==
    \A ids \in StreamOrders(sess), order \in PathOrders(sess),
       sorted \in SortedPathsBdw(sess) :
        LET res == scheduleToMultiplePaths(sess, sch, ids, order, sorted)
            new == DOMAIN res.s.streamToPath \ DOMAIN sess.streamToPath
            lowLatency == findPathLowLatency(sess, sch.quotas, order).selectedPathID
            given(pathID) == {strID \in new \ {1, 3} :
                                 \E i \in 1..Len(res.s.streamToPath[strID]) :
                                     res.s.streamToPath[strID][i] = pathID}
        IN  /\ \A strID \in DOMAIN sess.streamToPath :
                   /\ res.s.streamToPath[strID] = sess.streamToPath[strID]
                   /\ res.s.streams[strID].pathVolume = sess.streams[strID].pathVolume
            /\ sess.perspective = "server" =>
                   /\ \A strID \in new \cap {1, 3} :
                          res.s.streamToPath[strID] = <<lowLatency>>
                   /\ Cardinality(DOMAIN sess.paths) < 3 => new \subseteq {1, 3}
            /\ sess.perspective = "client" =>
                   \A strID \in new : res.s.streamToPath[strID] = <<lowLatency>>
            /\ \A pathID \in DOMAIN sess.paths :
                   Get(res.sch.numstreams, pathID)
                       = Get(sch.numstreams, pathID) + Cardinality(given(pathID))

\* a tick on a server with fewer than 3 paths has given stream 1 to a path
\* and has left stream 5, which has data, without a path
C34_Witness ==
    /\ called.op = "scheduleToMultiplePaths"
    /\ sess.perspective = "server"
    /\ Cardinality(DOMAIN sess.paths) < 3
    /\ 1 \in DOMAIN sess.streamToPath
    /\ 5 \in DOMAIN sess.streams
    /\ sess.streams[5].dataForWriting > 0
    /\ 5 \notin DOMAIN sess.streamToPath

\* a tick on a client has given stream 5 to a path and counted it
C34_WitnessClient ==
    /\ called.op = "scheduleToMultiplePaths"
    /\ sess.perspective = "client"
    /\ 5 \in DOMAIN sess.streamToPath
    /\ Get(sch.numstreams, sess.streamToPath[5][1]) > 0

\* C35: a send tick terminates.  Under fair scheduling of the steps of
\* sendPacket every tick reaches its return (through ackRemainingPaths or
\* with an error); the outer loop starts another round only after a round
\* in which a packet was sent on a path that had window; and a call of
\* getRetransmissionOfPath dequeues at most the packets the retransmission
\* queue of the path held when it was called, its loop making at most one
\* more pass, the one that finds the queue empty.
C35_SendTickTerminates ==
    /\ (called.op = "sendPacket" /\ called.pc = "start")
           ~> (called.op = "sendPacket" /\ called.pc = "done")
    /\ [](called.op = "sendPacket" =>
             /\ called.dequeued <= called.queuedAtCall
             /\ called.iterations <= called.queuedAtCall + 1
             /\ called.iterations <= called.dequeued + 1
             /\ (called.sentInRound => called.hasWindows /\ called.pathsent))
    /\ [][(called.pc = "pathloop" /\ called.i >= called.numOfPath
            /\ called'.pc # "done")
           => called.sentInRound /\ called.hasWindows]_vars
C35_Witness ==
    /\ called.op = "sendPacket" /\ called.pc = "done" /\ called.err = "nil"
    /\ called.rounds >= 2
    /\ \E pid \in DOMAIN sch.quotas : sch.quotas[pid] >= 2
    /\ \E pid \in DOMAIN sess.paths :
           /\ sess.paths[pid].sentPacketHandler.retransmissionQueue = <<>>
           /\ sess.paths[pid].sentPacketHandler.lastSentPacketNumber
                  > sess.paths[pid].sentPacketHandler.LargestAcked + 2

\* every open path has been sent a close signal: closePaths has ranged over
\* sess.paths, and its select sends to an open path unless the closeChan of
\* the path is full of an earlier signal
AllOpenPathsSignalled ==
    \A id \in PathIDs : pths[id].exists /\ pths[id].open => pths[id].signals >= 1

\* C36: whenever the path manager has received the shutdown signal, in the
\* select before the handshake or in the run loop, or createPaths has
\* failed after the handshake, it eventually has signalled the closeChan of
\* every open path and has stopped, and it never stops without having done
\* so.
C36_ShutdownClosesAllPaths ==
    /\ (called.op = "run" /\ (called.received # "none" \/ called.failed))
           ~> (RunStopped /\ AllOpenPathsSignalled)
    /\ [](RunStopped => AllOpenPathsSignalled)

\* the part of C36 that the code keeps: the shutdown signal received in the
\* run loop, and a failure of createPaths after the handshake
RunLoopShutdownClosesAllPaths ==
    (called.op = "run" /\ (called.received = "runLoop" \/ called.failed))
        ~> (RunStopped /\ AllOpenPathsSignalled)

\* the numbers of the packets of the history, and of the packets of the
\* retransmission queue that SentPacket of this handler has accepted (the
\* packets DuplicatePacket appends are packets of another path)
InHistory(hh) == {hh.packetHistory[i].PacketNumber : i \in DOMAIN hh.packetHistory}
OwnQueued(hh) == SelectSeq(hh.retransmissionQueue, LAMBDA p : p \notin DuplicatedPackets)
InQueue(hh) == {OwnQueued(hh)[i].PacketNumber : i \in DOMAIN OwnQueued(hh)}

ArmedMode(hh, r) ==
    IF hh.lossTime # 0 THEN "lossTime"
    ELSE IF r.smoothedRTT # 0 /\ hh.tlpCount < maxTailLossProbes THEN "TLP"
    ELSE "RTO"

\* C39: an OnAlarm that finds a retransmittable packet outstanding does what
\* the alarm was armed for: it runs the loss detection iff the alarm was set
\* from lossTime, sends a tail loss probe (tlpCount grows) iff it was armed
\* with the TLP timeout, and performs an RTO (rtoCount grows) iff it was
\* armed with the RTO timeout.
C39_OnAlarmMatchesArmedMode ==
    [][(last'.op = "OnAlarm" /\ hasOutstandingRetransmittablePacket(h)) =>
           /\ (h'.tlpCount = h.tlpCount /\ h'.rtoCount = h.rtoCount)
                  <=> (ArmedMode(h, rttStats) = "lossTime")
           /\ (h'.tlpCount = h.tlpCount + 1) <=> (ArmedMode(h, rttStats) = "TLP")
           /\ (h'.rtoCount = h.rtoCount + 1) <=> (ArmedMode(h, rttStats) = "RTO")]_vars

\* what the code does: the branch of OnAlarm follows lossTime and tlpCount
\* alone, so the first two alarms of a path without a round-trip time sample
\* are armed with the RTO timeout and send tail loss probes
OnAlarmFollowsTlpCount ==
    [][(last'.op = "OnAlarm" /\ hasOutstandingRetransmittablePacket(h)) =>
           /\ (h'.tlpCount = h.tlpCount /\ h'.rtoCount = h.rtoCount) <=> (h.lossTime # 0)
           /\ (h'.tlpCount = h.tlpCount + 1)
                  <=> (h.lossTime = 0 /\ h.tlpCount < maxTailLossProbes)
           /\ (h'.rtoCount = h.rtoCount + 1)
                  <=> (h.lossTime = 0 /\ h.tlpCount >= maxTailLossProbes)
           /\ (ArmedMode(h, rttStats) = "TLP" => h'.tlpCount = h.tlpCount + 1)]_vars

(***************************************************************************)
(* Properties of the tasks of the session on sess.paths.                   *)
(***************************************************************************)
\* C21 as stated: closePath and closePaths never wait while they hold the
\* paths lock (a closePath that has reached its send can always complete
\* it), and a path is sent at most one close signal, so a second closePath
\* or closePaths on a signalled path does nothing.
C21_CloseOnceWithoutBlocking ==
    /\ tasks["rcv"].pc = "send" => CanSend(tasks["rcv"].pthID)
    /\ \A id \in PathIDs : pths[id].signals <= 1

\* the tasks that are between the begin and the end of an access to sess.paths
Writing == {t \in Tasks : tasks[t].pc = "writing"}
Reading == {t \in Tasks : tasks[t].pc \in {"reading", "lookup", "range"}}

\* C22 as stated: a task writes sess.paths only while it holds the write
\* lock of pathsLock, the send loop reads it only while it holds the read
\* lock, and no task reads or writes the map while another task writes it.
C22_PathsUnderLock ==
    /\ \A t \in Writing : pathsLock.writer = t
    /\ "snd" \in Reading => "snd" \in pathsLock.readers
    /\ \A t \in Writing : (Writing \cup Reading) \ {t} = {}

(***************************************************************************)
(* Properties of the stopWaitingManager.                                   *)
(***************************************************************************)
\* what GetStopWaitingFrame(force) on manager s must return and leave behind
GetStopWaitingFrameAsDocumented(s, force) ==
    LET res == GetStopWaitingFrameResult(s, force)
    IN  IF s.nextLeastUnacked > s.largestLeastUnackedSent
        THEN /\ res.frame = StopWaitingFrame(s.nextLeastUnacked)
             /\ res.s = [s EXCEPT !.largestLeastUnackedSent = s.nextLeastUnacked,
                                  !.lastStopWaitingFrame = res.frame]
        ELSE IF ~ force
        THEN res.frame = NilFrame /\ res.s = s
        ELSE /\ res.frame = res.s.lastStopWaitingFrame
             /\ res.s.largestLeastUnackedSent = s.largestLeastUnackedSent
             /\ res.s.nextLeastUnacked = s.nextLeastUnacked
             /\ IF s.lastStopWaitingFrame # NilFrame
                THEN res.frame = s.lastStopWaitingFrame
                ELSE IF s.largestLeastUnackedSent > 0
                THEN res.frame = StopWaitingFrame(s.nextLeastUnacked)
                ELSE res.frame = NilFrame

\* managers whose last frame was never stored, as the comment in
\* GetStopWaitingFrame supposes
ManagersWithoutLastFrame ==
    {[largestLeastUnackedSent |-> l, nextLeastUnacked |-> n, lastStopWaitingFrame |-> NilFrame] :
        l \in 0..MaxLeastUnacked, n \in 0..MaxLeastUnacked}

\* C23: GetStopWaitingFrame(false) returns a frame only when nextLeastUnacked
\* > largestLeastUnackedSent, the frame carries nextLeastUnacked and
\* largestLeastUnackedSent is raised to it, otherwise it returns nil;
\* GetStopWaitingFrame(true) returns the last emitted frame, made from
\* nextLeastUnacked only if none was stored and largestLeastUnackedSent > 0;
\* a frame returned without force carries a larger LeastUnacked than the
\* frame emitted before it, and largestLeastUnackedSent <= nextLeastUnacked.
C23_StopWaitingFrames ==
    /\ stopWaitingManager.largestLeastUnackedSent <= stopWaitingManager.nextLeastUnacked
    /\ \A force \in BOOLEAN :
           /\ GetStopWaitingFrameAsDocumented(stopWaitingManager, force)
           /\ LET res == GetStopWaitingFrameResult(stopWaitingManager, force)
              IN  (~ force /\ res.frame # NilFrame
                     /\ stopWaitingManager.lastStopWaitingFrame # NilFrame)
                    => res.frame[1].LeastUnacked
                         > stopWaitingManager.lastStopWaitingFrame[1].LeastUnacked
    /\ \A s \in ManagersWithoutLastFrame, force \in BOOLEAN :
           GetStopWaitingFrameAsDocumented(s, force)

\* a second frame was emitted without force, and then asked for again with force
C23_Witness ==
    /\ swf.op = "GetStopWaitingFrame" /\ swf.force
    /\ swf.frame # NilFrame
    /\ swf.frame = stopWaitingManager.lastStopWaitingFrame
    /\ stopWaitingManager.largestLeastUnackedSent = stopWaitingManager.nextLeastUnacked
    /\ stopWaitingManager.nextLeastUnacked >= 2

(***************************************************************************)
(* Properties of the packer.                                               *)
(***************************************************************************)
\* what the entry points of the packer return in the current state for a
\* path, for every input they can be called with
PackResultsOf(pth) ==
    UNION {
        {PackAckPacketResult(packer, streamFramer, packetNumberGenerator,
                             encLevel, pth, writeFails)}
        \cup {PackConnectionCloseResult(packer, streamFramer, packetNumberGenerator,
                                        encLevel, ccf, pth, writeFails) :
                  ccf \in ConnectionCloseFrames}
        \cup {PackHandshakeRetransmissionResult(packer, streamFramer,
                                                packetNumberGenerator, encLevel,
                                                packet, pth, writeFails) :
                  packet \in HandshakePackets}
        \cup UNION {
               {PackPingResult(packer, streamFramer, packetNumberGenerator,
                               encLevel, pth, blocked, writeFails),
                PackPacketResult(packer, streamFramer, packetNumberGenerator,
                                 encLevel, pth, blocked, writeFails),
                PackPacketOfPathResult(packer, streamFramer, packetNumberGenerator,
                                       encLevel, pth, blocked, writeFails)}
               \cup {PackPacketOfStreamResult(packer, streamFramer,
                                              packetNumberGenerator, encLevel, pth,
                                              streamID, blocked, writeFails) :
                         streamID \in StreamIDs} :
               blocked \in BOOLEAN} :
        writeFails \in BOOLEAN}

PackResults == UNION {PackResultsOf(pth) : pth \in Paths}

\* a STOP_WAITING frame is all that is queued for the path
OnlyStopWaitingQueued(pth) ==
    /\ packer.stopWaiting[pth] /\ ~ packer.ackFrame[pth]
    /\ packer.controlFrames = <<>>
    /\ streamFramer.streamFrames = <<>> /\ ~ streamFramer.cryptoStream

\* C10: no entry point of the packer returns a packet whose frame list is
\* empty or is one STOP_WAITING frame alone; and when a STOP_WAITING frame
\* is all that is queued for the path, PackPacket returns no packet and no
\* error.
C10_NoLoneStopWaiting ==
    /\ \A res \in PackResults :
           res.packet.some => /\ res.packet.frames # <<>>
                              /\ res.packet.frames # <<Frame("stop_waiting")>>
    /\ \A pth \in Paths, blocked \in BOOLEAN, writeFails \in BOOLEAN :
           LET res == PackPacketResult(packer, streamFramer, packetNumberGenerator,
                                       encLevel, pth, blocked, writeFails)
           IN  OnlyStopWaitingQueued(pth) => res.packet = NoPacket /\ res.err = "nil"

\* PackPacket has returned no packet and no error where a STOP_WAITING frame
\* is all that is queued for a path and an ACK is queued for the other
C10_Witness ==
    /\ packed.op = "PackPacket" /\ ~ packed.some /\ packed.err = "nil"
    /\ \E pth \in Paths :
           OnlyStopWaitingQueued(pth) /\ \E other \in Paths : packer.ackFrame[other]

\* how many frames of a type a sequence of frames holds
CountType(frames, type) == Cardinality({i \in DOMAIN frames : frames[i].Type = type})

\* the types of the frames that wait in packer.controlFrames
ControlFrameTypes == {"ping", "window_update", "blocked"}

\* the control frames queued before a call are, after it, in the queue or in
\* the packet it returned, once each; composeNextPacket may have queued
\* one BLOCKED frame of the stream framer behind them
ControlFramesKept(queued, res) ==
    \A type \in ControlFrameTypes :
        LET before == CountType(queued, type)
            after == CountType(res.p.controlFrames, type)
                       + CountType(res.packet.frames, type)
        IN  IF type = "blocked" THEN after \in {before, before + 1}
            ELSE after = before

\* C24 as stated, for the calls that return no error: PackPing, PackPacket,
\* PackPacketOfPath and PackPacketOfStream neither lose nor duplicate a
\* queued control frame: each is afterwards still queued or in the packet
\* returned, and when no packet is returned none has left the queue (the
\* PING frame PackPing puts in front included).
C24_ControlFramesNeverLost ==
    \A pth \in Paths, blocked \in BOOLEAN :
        LET ping == PackPingResult(packer, streamFramer, packetNumberGenerator,
                                   encLevel, pth, blocked, FALSE)
            results ==
                {PackPacketResult(packer, streamFramer, packetNumberGenerator,
                                  encLevel, pth, blocked, FALSE),
                 PackPacketOfPathResult(packer, streamFramer, packetNumberGenerator,
                                        encLevel, pth, blocked, FALSE)}
                \cup {PackPacketOfStreamResult(packer, streamFramer,
                                               packetNumberGenerator, encLevel, pth,
                                               streamID, blocked, FALSE) :
                          streamID \in StreamIDs}
        IN  /\ ping.err = "nil"
                  => ControlFramesKept(<<Frame("ping")>> \o packer.controlFrames, ping)
            /\ \A res \in results :
                   res.err = "nil" => ControlFramesKept(packer.controlFrames, res)

\* the types of the frames of a packet
Types(frames) == {frames[i].Type : i \in DOMAIN frames}

\* C11: a packet that contains a CONNECTION_CLOSE frame contains no other
\* frame, whatever is queued; PackConnectionClose returns a packet of exactly
\* the one CONNECTION_CLOSE frame and leaves the queued control frames, the
\* queued STOP_WAITING and ACK frames and the stream frames where they are.
C11_ConnectionCloseAlone ==
    /\ \A res \in PackResults :
           (res.packet.some /\ "connection_close" \in Types(res.packet.frames))
               => Len(res.packet.frames) = 1
    /\ \A ccf \in ConnectionCloseFrames, pth \in Paths, writeFails \in BOOLEAN :
           LET res == PackConnectionCloseResult(packer, streamFramer,
                                                packetNumberGenerator, encLevel,
                                                ccf, pth, writeFails)
           IN  /\ res.packet.some
               /\ res.packet.frames = <<ccf>>
               /\ res.p = packer
               /\ res.streamFramer = streamFramer

\* PackConnectionClose has returned a packet while a control frame, a stream
\* frame, a STOP_WAITING frame and an ACK frame are queued
C11_Witness ==
    /\ packed.op = "PackConnectionClose" /\ packed.some /\ packed.err = "nil"
    /\ packer.controlFrames # <<>>
    /\ streamFramer.streamFrames # <<>>
    /\ \E pth \in Paths : packer.stopWaiting[pth] /\ packer.ackFrame[pth]

\* C14: a pack call that returns a packet without error pops the generator
\* of its path once: the packet carries the number Peek returned before the
\* call, Peek returns a larger number after it (the next, or the one after
\* a skipped number), and the generators of the other paths are untouched,
\* so the packets of a path carry strictly increasing numbers; a pack call
\* that returns no packet or an error leaves every generator as it was.
C14_PoppedOncePerPacket ==
    \A pth \in Paths : \A res \in PackResultsOf(pth) :
        IF res.packet.some /\ res.err = "nil"
        THEN /\ res.packet.number = Peek(packetNumberGenerator, pth)
             /\ Peek(res.packetNumberGenerator, pth)
                    \in {Peek(packetNumberGenerator, pth) + 1,
                         Peek(packetNumberGenerator, pth) + 2}
             /\ \A other \in Paths \ {pth} :
                    Peek(res.packetNumberGenerator, other)
                        = Peek(packetNumberGenerator, other)
        ELSE res.packetNumberGenerator = packetNumberGenerator

\* PackPacketOfPath has returned the second packet of path 2, and no packet
\* has been returned for path 1
C14_Witness ==
    /\ packed.op = "PackPacketOfPath" /\ packed.some /\ packed.err = "nil"
    /\ Peek(packetNumberGenerator, 2) = 3
    /\ Peek(packetNumberGenerator, 1) = 1

\* C15: the frames of a packet an entry point returns without error are at
\* most MaxFrameSize, that is, header, frames and sealer overhead are at most
\* MaxPacketSize; a call that is given more than that to write (a
\* CONNECTION_CLOSE frame with a long reason phrase, a handshake packet that
\* is full before the STOP_WAITING frame is added) returns the packet-too-large
\* error, and a call that returns this error does not pop the generator.
C15_AtMostMaxPacketSize ==
    /\ \A res \in PackResults :
           /\ (res.packet.some /\ res.err = "nil")
                  => WrittenLength(res.packet.frames) <= MaxFrameSize
           /\ (res.packet.some /\ WrittenLength(res.packet.frames) > MaxFrameSize)
                  => res.err \in {"too large", "write"}
           /\ res.err = "too large"
                  => res.packetNumberGenerator = packetNumberGenerator
    /\ \A pth \in Paths :
           LET cc == PackConnectionCloseResult(packer, streamFramer,
                                               packetNumberGenerator, encLevel,
                                               ConnectionCloseFrame(MaxFrameSize),
                                               pth, FALSE)
               hs == PackHandshakeRetransmissionResult(
                         packer, streamFramer, packetNumberGenerator, encLevel,
                         [EncryptionLevel |-> "unencrypted",
                          Frames |-> FullPacketFrames], pth, FALSE)
           IN  /\ cc.err = "too large"
               /\ packer.stopWaiting[pth] => hs.err = "too large"

\* PackHandshakeRetransmission has returned the packet-too-large error
C15_Witness ==
    /\ packed.op = "PackHandshakeRetransmission" /\ packed.err = "too large"
    /\ \E pth \in Paths : Peek(packetNumberGenerator, pth) > 1

(***************************************************************************)
(* Properties of composeNextPacket, composeNextPacketOfPath and            *)
(* composeNextPacketOfStream.                                              *)
(***************************************************************************)
StreamFramesOf(frames) == SelectSeq(frames, LAMBDA f : f.Type = "stream")

\* C12: in the frames a call of composeNextPacket, composeNextPacketOfPath or
\* composeNextPacketOfStream has returned, the last stream frame has no data
\* length and every stream frame before it has one, also when the framer had
\* a BLOCKED frame to hand over.
C12_LastStreamFrameWithoutDataLen ==
    LET fs == StreamFramesOf(composed.payloadFrames)
    IN  fs # <<>> =>
            /\ ~ fs[Len(fs)].DataLenPresent
            /\ \A i \in 1..(Len(fs) - 1) : fs[i].DataLenPresent

\* a call has returned two stream frames behind a STOP_WAITING frame, and the
\* framer has handed over a BLOCKED frame
C12_Witness ==
    /\ composed.op # "none" /\ composed.err = "nil" /\ composed.blocked
    /\ Len(StreamFramesOf(composed.payloadFrames)) = 2
    /\ Head(composed.payloadFrames).Type = "stop_waiting"
    /\ packer.controlFrames # <<>>
    /\ packer.controlFrames[Len(packer.controlFrames)].Type = "blocked"

\* the place of a frame in the order STOP_WAITING, ACK, control frames,
\* stream frames
Rank(frame) ==
    CASE frame.Type = "stop_waiting" -> 1
      [] frame.Type = "ack" -> 2
      [] frame.Type = "stream" -> 4
      [] OTHER -> 3

InOrder(frames) ==
    \A i, j \in DOMAIN frames : i < j => Rank(frames[i]) <= Rank(frames[j])

ControlFramesOf(frames) == SelectSeq(frames, LAMBDA f : Rank(f) = 3)

Reverse(s) == [i \in 1..Len(s) |-> s[Len(s) + 1 - i]]

AckPacketResults ==
    {PackAckPacketResult(packer, streamFramer, packetNumberGenerator, encLevel,
                         pth, writeFails) : pth \in Paths, writeFails \in BOOLEAN}

\* C13 as stated: in every packet an entry point of the packer returns, the
\* frames are in the order STOP_WAITING, ACK, control frames, stream frames,
\* so that a STOP_WAITING frame is the first frame.
C13_StopWaitingFirstInEveryPacket ==
    \A res \in PackResults : res.packet.some => InOrder(res.packet.frames)

\* C13: the frames composeNextPacket, composeNextPacketOfPath and
\* composeNextPacketOfStream return are in the order STOP_WAITING, ACK,
\* control frames, stream frames, and the control frames are the tail of the
\* queue, last queued first; the packets of every entry point are in that
\* order, except that PackAckPacket returns the ACK frame followed by the
\* STOP_WAITING frame when both are queued.
C13_FrameOrder ==
    /\ \A pth \in Paths, maxFrameSize \in MaxFrameSizes,
          filter \in {AllStreams} \cup {OfPath(x) : x \in Paths}
                         \cup {OfOneStream(x) : x \in StreamIDs},
          canSendStreamFrames \in BOOLEAN :
           LET c == composeNextPacket(packer, streamFramer, maxFrameSize,
                                      canSendStreamFrames, pth, filter, FALSE)
           IN  c.err = "nil" =>
                   /\ InOrder(c.payloadFrames)
                   /\ packer.controlFrames =
                          c.p.controlFrames \o Reverse(ControlFramesOf(c.payloadFrames))
    /\ \A res \in PackResults :
           res.packet.some =>
               \/ InOrder(res.packet.frames)
               \/ /\ res \in AckPacketResults
                  /\ res.packet.frames = <<Frame("ack"), Frame("stop_waiting")>>
    /\ \A res \in AckPacketResults :
           res.packet.some => Head(res.packet.frames) = Frame("ack")

\* a call has returned a STOP_WAITING frame, an ACK frame, the two queued
\* control frames, the one queued last first, and a stream frame
C13_Witness ==
    /\ composed.op # "none" /\ composed.err = "nil"
    /\ Len(composed.payloadFrames) = 5
    /\ composed.payloadFrames[1].Type = "stop_waiting"
    /\ composed.payloadFrames[2].Type = "ack"
    /\ composed.payloadFrames[3].Type = "blocked"
    /\ composed.payloadFrames[4].Type = "window_update"
    /\ composed.payloadFrames[5].Type = "stream"

(***************************************************************************)
(* Properties of the path manager.                                         *)
(***************************************************************************)
\* the parity of the path IDs a side allocates
localParity(perspective) == IF perspective = "client" THEN 1 ELSE 0

C37_CreatePathFromRemoteRejects ==
    /\ \A pathID \in 0..MaxPathID, locAddr \in LocalAddrs, remAddr \in RemoteAddrs :
           LET res == createPathFromRemote(sess, pathID, locAddr, remAddr)
           IN  IF \/ pathID \in DOMAIN sess.paths
                  \/ pathID % 2 = localParity(sess.perspective)
               THEN /\ res.err # "nil"
                    /\ res.pathID = NoPathID
                    /\ res.sess.paths = sess.paths
                    /\ res.sess.openPaths = sess.openPaths
               ELSE /\ res.err = "nil"
                    /\ res.pathID = pathID
                    /\ DOMAIN res.sess.paths = DOMAIN sess.paths \cup {pathID}
                    /\ \A id \in DOMAIN sess.paths : res.sess.paths[id] = sess.paths[id]
                    /\ res.sess.paths[pathID].pathID = pathID
                    /\ res.sess.openPaths = Append(sess.openPaths, pathID)
    /\ {sess.openPaths[k] : k \in 1..Len(sess.openPaths)} = DOMAIN sess.paths
    /\ Len(sess.openPaths) = Cardinality(DOMAIN sess.paths)
    /\ called.op = "createPathFromRemote" =>
           ((called.err = "nil") <=> (called.pathID # NoPathID))

\* createPathFromRemote has just added a third path to a session in which
\* one received ID would be refused as existing and another for its parity
C37_Witness ==
    /\ called.op = "createPathFromRemote" /\ called.err = "nil"
    /\ called.pathID \in DOMAIN sess.paths
    /\ Len(sess.openPaths) >= 3
    /\ \E pathID \in 0..MaxPathID :
           pathID \notin DOMAIN sess.paths /\ parityError(sess, pathID) # "nil"

\* what the pack calls of C40 return in the current state for a path
PackCallsOf(pth) ==
    UNION {
        {PackAckPacketResult(packer, streamFramer, packetNumberGenerator,
                             encLevel, pth, writeFails)}
        \cup {PackHandshakeRetransmissionResult(packer, streamFramer,
                                                packetNumberGenerator, encLevel,
                                                packet, pth, writeFails) :
                  packet \in HandshakePackets}
        \cup UNION {
               {PackPacketResult(packer, streamFramer, packetNumberGenerator,
                                 encLevel, pth, blocked, writeFails),
                PackPacketOfPathResult(packer, streamFramer, packetNumberGenerator,
                                       encLevel, pth, blocked, writeFails)}
               \cup {PackPacketOfStreamResult(packer, streamFramer,
                                              packetNumberGenerator, encLevel, pth,
                                              streamID, blocked, writeFails) :
                         streamID \in StreamIDs} :
               blocked \in BOOLEAN} :
        writeFails \in BOOLEAN}

\* a pack call for a path leaves the STOP_WAITING and ACK entries of the
\* other paths as they are, and its packet carries a STOP_WAITING or an ACK
\* frame only if one was queued for the path
PackIsolatedPerPath ==
    \A pth \in Paths : \A res \in PackCallsOf(pth) :
        /\ \A other \in Paths \ {pth} :
               /\ res.p.stopWaiting[other] = packer.stopWaiting[other]
               /\ res.p.ackFrame[other] = packer.ackFrame[other]
        /\ res.packet.some =>
               /\ CountType(res.packet.frames, "stop_waiting")
                      <= IF packer.stopWaiting[pth] THEN 1 ELSE 0
               /\ CountType(res.packet.frames, "ack")
                      <= IF packer.ackFrame[pth] THEN 1 ELSE 0

\* C40: the queued STOP_WAITING and ACK frames are isolated per path, and a
\* pack call for a path clears the entries of the path exactly when it
\* returns a packet: with a packet returned both entries are empty, with no
\* packet returned both are as they were.
C40_QueuedFramesClearedWithPacket ==
    /\ PackIsolatedPerPath
    /\ \A pth \in Paths : \A res \in PackCallsOf(pth) :
           IF res.packet.some
           THEN ~ res.p.stopWaiting[pth] /\ ~ res.p.ackFrame[pth]
           ELSE /\ res.p.stopWaiting[pth] = packer.stopWaiting[pth]
                /\ res.p.ackFrame[pth] = packer.ackFrame[pth]

\* a STOP_WAITING and an ACK frame are queued for path 1 and for path 2, with
\* stream data to send
PackIsolatedCase ==
    /\ \A pth \in Paths : packer.stopWaiting[pth] /\ packer.ackFrame[pth]
    /\ streamFramer.streamFrames # <<>>
    /\ packed.some

(***************************************************************************)
(* Properties of the scheduler's choice of a path.                         *)
(***************************************************************************)
\* the paths the pathLoop of findPathLowLatency does not pass over
Candidates(s) ==
    {pathID \in DOMAIN s.paths \ {InitialPathID} :
        s.paths[pathID].sendingAllowed /\ ~ s.paths[pathID].potentiallyFailed}

Probed(s) == {pathID \in Candidates(s) : s.paths[pathID].smoothedRTT # 0}

selectedBy(s, quotas, order) == findPathLowLatency(s, quotas, order).selectedPathID

\* the session after a packet is sent on path pathID
afterSending(s, pathID, limited) ==
    [s EXCEPT !.paths[pathID].sendingAllowed = @ /\ ~ limited]

\* C19: with two or more paths, whatever the order of the iteration,
\* findPathLowLatency returns no path or a candidate: a path other than the
\* initial one, whose SendingAllowed() is true and that is not potentially
\* failed.  When candidates have a smoothed RTT other than 0 it returns one
\* of them with the lowest RTT; when all candidates are unprobed it returns
\* one with the lowest quota.  Of two unprobed candidates with equal quotas,
\* after one packet is sent on the one returned (quota + 1), the other one is
\* returned next.
C19_LowLatencyPath ==
    Cardinality(DOMAIN sess.paths) >= 2 =>
        \A order \in Orders(DOMAIN sess.paths) :
            LET selectedPathID == selectedBy(sess, sch.quotas, order)
                srtt(pathID) == sess.paths[pathID].smoothedRTT
                quota(pathID) == Get(sch.quotas, pathID)
            IN  /\ selectedPathID # InitialPathID
                /\ selectedPathID = NoPathID <=> Candidates(sess) = {}
                /\ selectedPathID # NoPathID => selectedPathID \in Candidates(sess)
                /\ Probed(sess) # {} =>
                       /\ selectedPathID \in Probed(sess)
                       /\ \A pathID \in Probed(sess) :
                              srtt(selectedPathID) <= srtt(pathID)
                /\ (Probed(sess) = {} /\ Candidates(sess) # {}) =>
                       \A pathID \in Candidates(sess) :
                           quota(selectedPathID) <= quota(pathID)
                /\ ( /\ Probed(sess) = {}
                     /\ Cardinality(Candidates(sess)) = 2
                     /\ \A pathID \in Candidates(sess) :
                            quota(pathID) = quota(selectedPathID) ) =>
                       \A next \in Orders(DOMAIN sess.paths), limited \in BOOLEAN :
                           LET res == findPathLowLatency(sess, sch.quotas, order)
                               sent == performPacketSending(res.quotas,
                                                            selectedPathID, TRUE)
                           IN  /\ Get(sent, selectedPathID)
                                    = quota(selectedPathID) + 1
                               /\ selectedBy(afterSending(sess, selectedPathID, limited),
                                             sent, next)
                                    \in Candidates(sess) \ {selectedPathID}

\* the scheduler has sent a packet on path 1, one of two unprobed candidates,
\* (path 1 has the quota 2, above the quotas the sessions start with) and
\* findPathLowLatency has returned path 2 after it
C19_Witness ==
    /\ called.op = "findPathLowLatency" /\ called.pathID = 2
    /\ Candidates(sess) = {1, 2} /\ Probed(sess) = {}
    /\ Get(sch.quotas, 1) = 2 /\ Get(sch.quotas, 2) = 1

\* C20 as stated: for fixed paths, RTTs, quotas, SendingAllowed() and
\* potentiallyFailed, findPathLowLatency returns the same path for every
\* order in which the paths map is iterated.
C20_SameForEveryIterationOrder ==
    \A order, other \in Orders(DOMAIN sess.paths) :
        selectedBy(sess, sch.quotas, order) = selectedBy(sess, sch.quotas, other)

=============================================================================
